---- MODULE Spec2Model ----
(***************************************************************************)
(* Model of the you-shall-pass permission graph checker (src/lib/acl.ts):  *)
(* the Acl constructor, the concurrent _check / _checkChildren traversal,  *)
(* the sequential _explain traversal and the _canReach oracle.             *)
(*                                                                         *)
(* A context ("params") is a JavaScript object: a mapping of own           *)
(* properties plus a prototype.  Objects live in `heap`, indexed by the    *)
(* call path (sequence of edge ids) of the _checkChildren / _explain       *)
(* iteration that created them; <<>> is the caller's object.               *)
(***************************************************************************)
EXTENDS Integers, Sequences, FiniteSets, TLC

\* ------------------------------------------------------------------ bounds
MaxVal == 2
\* calls deeper than this are not followed (only a cyclic graph gets there)
MaxDepth == 4

\* ------------------------------------------------------------ value domain
\* property values are opaque; "undefined" is what reading a missing property gives
Val(i) == ToString(i)
Vals == {Val(i) : i \in 1..MaxVal}
Absent == "undefined"
Keys == {"key", "user", "token"}
NoKey == "-"

EmptyObj == [k \in Keys |-> Absent]

\* Object.assign(m, e): every own enumerable property of e is copied onto m.
ObjectAssign(m, e) == [k \in Keys |-> IF e[k] # Absent THEN e[k] ELSE m[k]]

Front(p) == SubSeq(p, 1, Len(p) - 1)
Last(p) == p[Len(p)]
Range(s) == {s[i] : i \in 1..Len(s)}

\* ------------------------------------------------- user supplied predicates
\* A CheckFn is opaque user code.  It is represented by what it does to the
\* context it receives: "undef" (no check given), "const" (optionally binds
\* wkey := wval, then returns ret), "eq" (returns params[rkey] == expect),
\* "throw" (rejects).
MkPred(t, rkey, expect, wkey, wval, ret) ==
    [t |-> t, rkey |-> rkey, expect |-> expect, wkey |-> wkey, wval |-> wval, ret |-> ret]

NoCheck == MkPred("undef", NoKey, Absent, NoKey, Absent, TRUE)
AlwaysTrue == MkPred("const", NoKey, Absent, NoKey, Absent, TRUE)
Throwing == MkPred("throw", NoKey, Absent, NoKey, Absent, FALSE)
Bind(k, v, ret) == MkPred("const", NoKey, Absent, k, v, ret)
KeyEq(k, v) == MkPred("eq", k, v, NoKey, Absent, FALSE)

CheckFns ==
    {NoCheck, Throwing, Bind("user", Val(1), FALSE), Bind("token", Val(1), TRUE),
     KeyEq("key", Val(1)), KeyEq("user", Val(1))}
    \cup {Bind("user", v, TRUE) : v \in Vals}

\* Outcome of running a predicate on a context whose visible properties are
\* `view`: whether it threw, whether it passed, and the property it wrote.
RunCheck(fn, view) ==
    [threw |-> fn.t = "throw",
     passed |-> CASE fn.t = "const" -> fn.ret
                  [] fn.t = "eq" -> view[fn.rkey] = fn.expect
                  [] OTHER -> FALSE,
     wkey |-> IF fn.t = "const" THEN fn.wkey ELSE NoKey,
     wval |-> fn.wval]

\* ---------------------------------------------------------- fill functions
\* The keys a restriction hash may hold, in the order `for (let key in
\* restrictions)` enumerates them.
RKeys == <<"fields", "ids">>
RKeySet == {"fields", "ids"}

\* A RestrictFn is opaque user code returning a promise.  It is represented
\* by the grant it adds to the accumulator it is given once the data it
\* awaits has come: async (params, r) => { ...; r.allow([grant]) }.
NoFill == [t |-> "undef", grant |-> "-"]
Allow(g) == [t |-> "allow", grant |-> g]

\* Fill functions that assign to the params they are given before they
\* await: async (params, r) => { params.token = ...; ...; r.allow([grant]) },
\* in sloppy mode, where an assignment that fails is ignored, and in strict
\* mode, where it throws TypeError; and a fill function whose promise rejects.
Writing(g) == [t |-> "write", grant |-> g]
WritingStrict(g) == [t |-> "writeStrict", grant |-> g]
Failing(g) == [t |-> "throw", grant |-> g]
\* A fill function that grants what it reads in the params it is given:
\* async (params, r) => r.allow([params[k]])
Reading(k) == [t |-> "read", grant |-> k]
FillWrites(fn) == fn.t \in {"write", "writeStrict"}

\* Definition.restrict left out: restrictFns || {}
NoRestrict == [k \in RKeySet |-> NoFill]

\* Definition.restrict of the definition declared at position i
Restricts(i) ==
    {NoRestrict,
     [NoRestrict EXCEPT !["fields"] = Allow(ToString(i))],
     [k \in RKeySet |-> Allow(ToString(i))]}

\* The hash the caller builds: new, empty accumulators under some keys
EmptyAccumulators(K) == [k \in K |-> {}]

\* ------------------------------------------------------------- definitions
\* Definition.from / Definition.to : string | string[]
Str(n) == [arr |-> FALSE, v |-> <<n>>]
Arr(s) == [arr |-> TRUE, v |-> s]

Topologies ==
    << \* two sibling branches that join on the target
       << [from |-> Str("public"), to |-> Str("a")],
          [from |-> Str("public"), to |-> Str("b")],
          [from |-> Arr(<<"a", "b">>), to |-> Str("t")] >>,
       \* three edges with the same end points, and a dead end
       << [from |-> Str("public"), to |-> Str("t")],
          [from |-> Str("public"), to |-> Arr(<<"t">>)],
          [from |-> Str("public"), to |-> Arr(<<"x", "t">>)] >>,
       \* a path of length three and a path of length two sharing their last edge
       << [from |-> Str("public"), to |-> Arr(<<"a", "c">>)],
          [from |-> Str("a"), to |-> Str("c")],
          [from |-> Str("c"), to |-> Str("t")] >> >>

Nodes == {"public", "a", "b", "c", "t", "x"}
Permissions == {"public", "a", "t", "nowhere"}

DefinitionLists ==
    UNION { { [i \in 1..Len(Topologies[s]) |->
                 [from |-> Topologies[s][i].from, to |-> Topologies[s][i].to,
                  explain |-> i, check |-> P[i], restrict |-> NoRestrict]] :
              P \in [1..Len(Topologies[s]) -> CheckFns] } :
            s \in 1..Len(Topologies) }

\* new Edge(from, to, explain, check, restrictFns)
Edge(from, to, explain, check, restrictFns) ==
    [from |-> from, to |-> to, explain |-> explain,
     check |-> IF check.t = "undef" THEN AlwaysTrue ELSE check,
     restrictFns |-> restrictFns]

\* The edges one definition expands to: for (from of def.from) for (to of def.to)
DefEdges(def) ==
    LET F == def.from.v
        T == def.to.v
    IN  [j \in 1..(Len(F) * Len(T)) |->
           Edge(F[((j - 1) \div Len(T)) + 1], T[((j - 1) % Len(T)) + 1],
                def.explain, def.check, def.restrict)]

\* (mutant) later declarations put before the earlier ones
RECURSIVE ExpandDefsReversed(_, _)
ExpandDefsReversed(definitions, n) ==
    IF n = 0 THEN <<>>
    ELSE DefEdges(definitions[n]) \o ExpandDefsReversed(definitions, n - 1)

RECURSIVE ExpandDefs(_, _)
ExpandDefs(definitions, n) ==
    IF n = 0 THEN <<>>
    ELSE ExpandDefs(definitions, n - 1) \o DefEdges(definitions[n])

\* Acl constructor: the Map from -> Edge[]; an edge's id is its object identity.
AclEdges(definitions) ==
    LET flat == ExpandDefs(definitions, Len(definitions))
        all == [j \in 1..Len(flat) |->
                  [id |-> j, from |-> flat[j].from, to |-> flat[j].to,
                   explain |-> flat[j].explain, check |-> flat[j].check,
                   restrictFns |-> flat[j].restrictFns]]
    IN  [n \in Nodes \cup {all[j].from : j \in 1..Len(all)} |->
            SelectSeq(all, LAMBDA e : e.from = n)]

\* ------------------------------------------------------------------- state
VARIABLES
    defaultRole,    \* Acl._defaultRole
    edges,          \* Acl._edges
    params0,        \* the own properties of the caller's context at call time
    heap,           \* object id -> own properties
    call,           \* the top level call and the state of its promise
    tasks,          \* call path -> state of the _check / _checkChildren call
    evals,          \* the predicate evaluations made so far
    frames,         \* call stack of _explain
    records,        \* result array of the top level _explain
    restrictions,   \* the caller's restriction hash: key -> grants accumulated
    fills           \* call path -> state of its edge.fillRestrictions call

\* The accumulators a caller builds: a FieldsByIdRestriction and a
\* FieldsRestriction, and the calls made on them so far.
VARIABLES
    _byId,          \* FieldsByIdRestriction._byId: the Map's entries, in insertion order
    _others,        \* FieldsByIdRestriction._others
    _fields,        \* FieldsRestriction._fields
    log             \* the calls made on the two objects, in order

accumulators == <<_byId, _others, _fields, log>>

\* A second top level check made on the same instance with the same context
\* object, before, while or after the first call runs.
VARIABLES call2

\* the path of the second call: 0 is the id of no edge
Second == <<0>>
IsRoot(p) == p = <<>> \/ p = Second

\* the top level call that the call with path p belongs to
CallOf(p) == IF Len(p) > 0 /\ p[1] = 0 THEN call2 ELSE call

\* the number of edges on the path of a call
Depth(p) == IF Len(p) > 0 /\ p[1] = 0 THEN Len(p) - 1 ELSE Len(p)

vars == <<defaultRole, edges, params0, heap, call, tasks, evals, frames, records,
          restrictions, fills, accumulators, call2>>

\* new FieldsByIdRestriction() and new FieldsRestriction()
NewAccumulators ==
    /\ _byId = <<>>
    /\ _others = {}
    /\ _fields = {}
    /\ log = <<>>
    /\ call2 = [op |-> "none", to |-> "public"]

\* ------------------------------------------------------------ result values
Null == [kind |-> "null", id |-> <<>>, own |-> EmptyObj]
Ref(id) == [kind |-> "ref", id |-> id, own |-> EmptyObj]
Obj(o) == [kind |-> "obj", id |-> <<>>, own |-> o]
OwnProps(h, r) == IF r.kind = "ref" THEN h[r.id] ELSE r.own

\* ------------------------------------------------------------------- graph
\* this._edges.get(from) || []
EdgesFrom(from) == IF from \in DOMAIN edges THEN edges[from] ELSE <<>>

AllEdges == UNION {Range(edges[n]) : n \in DOMAIN edges}
EdgeById(i) == CHOOSE e \in AllEdges : e.id = i

\* How the call this._canReach(from, to) ends when the calls for the nodes
\* of `stack` are in progress below it: "true", "false", or "overflow" when
\* it re-enters a node of the stack.  The function keeps no visited set and
\* is deterministic, so such a call repeats the calls that led to it without
\* end, until the engine throws RangeError (call stack size exceeded).
RECURSIVE CanReachCall(_, _, _)
RECURSIVE CanReachLoop(_, _, _, _)
CanReachCall(from, to, stack) ==
    IF from = to THEN "true"
    ELSE IF from \in stack THEN "overflow"
    ELSE CanReachLoop(from, to, stack \cup {from}, 1)

\* for (let edge of edges) if (this._canReach(edge.to, to)) return true
CanReachLoop(from, to, stack, i) ==
    IF i > Len(EdgesFrom(from)) THEN "false"
    ELSE LET r == CanReachCall(EdgesFrom(from)[i].to, to, stack)
         IN  IF r = "false" THEN CanReachLoop(from, to, stack, i + 1) ELSE r

\* (mutant) a test of the direct edges only: the recursion returns false
DirectEdge(from, to) ==
    \/ from = to
    \/ \E i \in 1..Len(EdgesFrom(from)) : EdgesFrom(from)[i].to = to

_canReach(from, to) == CanReachCall(from, to, {}) = "true"

\* the call throws instead of returning
Overflows(from, to) == CanReachCall(from, to, {}) = "overflow"

\* ------------------------------------------------------------------ scopes
\* (mutant) const scopedParams = params: every call writes into the object
\* it was given, which makes all scopes the caller's object
SameParams(p) == <<>>

\* const scopedParams = Object.create(params), made by the call with path p:
\* a fresh object whose prototype is the params the call received.
ScopedParams(p) == p

\* (mutant) this._check(edge.to, to, params, restrictions): the recursion is
\* handed the params of the caller instead of the edge's scope
OuterParams(p) == <<>>

\* the params a call with path p received: the scope of the calling edge
ParamsOf(p) == IF IsRoot(p) THEN <<>> ELSE ScopedParams(p)

RECURSIVE Get(_, _, _)
Get(h, id, k) ==
    IF h[id][k] # Absent THEN h[id][k]
    ELSE IF id = <<>> THEN Absent
    ELSE Get(h, ParamsOf(Front(id)), k)

View(h, id) == [k \in Keys |-> Get(h, id, k)]

\* the node a call with path p explores from
NodeOf(p) == IF IsRoot(p) THEN defaultRole ELSE EdgeById(Last(p)).to

\* (mutant) the edges of the node without the filter
Unfiltered(from, to) == EdgesFrom(from)

\* edges.filter(edge => this._canReach(edge.to, to))
Surviving(from, to) == SelectSeq(EdgesFrom(from), LAMBDA e : _canReach(e.to, to))

\* the filter throws when one of its _canReach calls does
FilterThrows(from, to) ==
    \E i \in 1..Len(EdgesFrom(from)) : Overflows(EdgesFrom(from)[i].to, to)

\* the calls edges.map(edge => this._checkChildren(edge, ...)) makes, in order
ChildPaths(p, to) ==
    LET s == Surviving(NodeOf(p), to)
    IN  [i \in 1..Len(s) |-> Append(p, s[i].id)]

\* Prefixes of a call path, the path itself included
Prefixes(p) == {SubSeq(p, 1, n) : n \in 0..Len(p)}

\* Record of one predicate evaluation: the call that made it, the properties
\* the predicate could read, its outcome, and the properties that objects
\* other than its own scope chain held at that time.
Evaluation(h, p, view, out) ==
    [path |-> p, saw |-> view, threw |-> out.threw, passed |-> out.passed,
     foreign |-> {<<k, h[id][k]>> : id \in DOMAIN h \ Prefixes(p), k \in Keys}
                 \ {<<k, Absent>> : k \in Keys}]

\* ------------------------------------------------------------------- check
\* State of a call: where it stands, the promises it awaits (const checks),
\* and the value it returned.
Pending(pc) == [pc |-> pc, checks |-> <<>>, result |-> Null]
Awaiting(kids) == [pc |-> "children", checks |-> kids, result |-> Null]
Done(r) == [pc |-> "done", checks |-> <<>>, result |-> r]

WithTask(T, p, rec, kids) ==
    [q \in DOMAIN T \cup {p} \cup kids |->
        IF q = p THEN rec
        ELSE IF q \in kids THEN Pending("check")
        ELSE T[q]]

\* Object.create(params) for each started _checkChildren call
AddScopes(h, kids) ==
    [id \in DOMAIN h \cup {ScopedParams(k) : k \in kids} |->
        IF id \in DOMAIN h THEN h[id] ELSE EmptyObj]

\* (mutant) Object.assign({}, childrenParams, scopedParams)
MergeOwnSwapped(scoped, children) == ObjectAssign(ObjectAssign(EmptyObj, children), scoped)

\* (mutant) return childrenParams
MergeChildrenOnly(scoped, children) == children

\* Object.assign({}, scopedParams, childrenParams)
MergeOwn(scoped, children) == ObjectAssign(ObjectAssign(EmptyObj, scoped), children)

\* (mutant) reduce((m, e) => Object.assign(e, m), {}): earlier results win
RECURSIVE ReduceFirstWins(_, _, _)
ReduceFirstWins(h, rs, m) ==
    IF rs = <<>> THEN m
    ELSE ReduceFirstWins(h, Tail(rs), ObjectAssign(OwnProps(h, Head(rs)), m))

RECURSIVE Reduce(_, _, _)
Reduce(h, rs, m) ==
    IF rs = <<>> THEN m
    ELSE Reduce(h, Tail(rs), ObjectAssign(m, OwnProps(h, Head(rs))))

\* (mutant) the reduce without the positiveResults.length test
MergeAlways(h, results) ==
    Obj(Reduce(h, SelectSeq(results, LAMBDA r : r.kind # "null"), EmptyObj))

\* (mutant) reduce((m, e) => Object.assign(m, e), Object.assign({}, params)):
\* the caller's context is the first value of the merge
MergeIntoParams(h, results) ==
    LET positiveResults == SelectSeq(results, LAMBDA r : r.kind # "null")
    IN  IF Len(positiveResults) > 0
        THEN Obj(Reduce(h, positiveResults, params0))
        ELSE Null

\* results.filter(r => !!r), then reduce((m, e) => Object.assign(m, e), {}) or null
MergePositive(h, results) ==
    LET positiveResults == SelectSeq(results, LAMBDA r : r.kind # "null")
    IN  IF Len(positiveResults) > 0
        THEN Obj(Reduce(h, positiveResults, EmptyObj))
        ELSE Null

\* ------------------------------------------------------------------- fills
\* for (let key in restrictions)
KeysOf(R) == SelectSeq(RKeys, LAMBDA k : k \in DOMAIN R)

\* the position, from i on, of the next key with this._restrictFns[key] set;
\* 0 when the loop ends
NextFillKey(edge, R, i) ==
    LET J == {j \in i..Len(KeysOf(R)) : edge.restrictFns[KeysOf(R)[j]].t # "undef"}
    IN  IF J = {} THEN 0 ELSE CHOOSE j \in J : \A x \in J : j <= x

\* State of a fillRestrictions call that goes on from position i: the
\* position of the key whose fill it has invoked and awaits (0: the call
\* has returned), and the keys whose fill it has invoked so far.
FillCall(edge, R, i, invoked) ==
    LET j == NextFillKey(edge, R, i)
    IN  [i |-> j,
         invoked |-> IF j = 0 THEN invoked ELSE invoked \cup {KeysOf(R)[j]}]

\* (mutant) fn(params, restrictions[key]): the fill function is given the
\* scope itself, and its assignment lands there
UnfrozenParams(h, sp, fn) ==
    IF FillWrites(fn) THEN [h EXCEPT ![sp]["token"] = Val(2)] ELSE h

\* The objects after a fill function was invoked with
\* Object.freeze(Object.create(params)): the frozen object has no own
\* property and takes none, so an assignment made by fn changes no object.
FrozenParams(h, sp, fn) == h

\* the fill function fn throws, or the promise it returns rejects
FillRejects(fn) == fn.t \in {"throw", "writeStrict"}

\* What fn adds to the accumulator it is given: a property read on the
\* frozen object, which has no own property, is delegated to its prototype,
\* the scope sp.
GrantOf(h, sp, fn) == IF fn.t = "read" THEN Get(h, sp, fn.grant) ELSE fn.grant

\* The objects once the fillRestrictions call of p, going on from position
\* i, has invoked its next fill function (which runs until its first await).
AfterFill(h, p, i) ==
    LET edge == EdgeById(Last(p))
        j == NextFillKey(edge, restrictions, i)
    IN  IF j = 0 THEN h
        ELSE FrozenParams(h, ScopedParams(p), edge.restrictFns[KeysOf(restrictions)[j]])

\* What the call with path p returns once its _check returned childrenParams:
\* the top level call returns it as is, _checkChildren calls
\* edge.fillRestrictions and then merges childrenParams with its scope.
Finish(p, h, childrenParams) ==
    IF IsRoot(p) THEN childrenParams
    ELSE IF childrenParams.kind = "null" THEN Null
    ELSE LET h2 == AfterFill(h, p, 1)
         IN  Obj(MergeOwn(h2[ScopedParams(p)], OwnProps(h2, childrenParams)))

\* The objects once the call with path p has returned `result`
Filled(h, p, result) ==
    IF ~IsRoot(p) /\ result.kind # "null" THEN AfterFill(h, p, 1) ELSE h

\* (mutant) the fill made before the test of childrenParams
FillBeforeRecursionTest(F, R, T, p) ==
    IF Len(p) > 0 /\ T[p].pc = "done"
    THEN [q \in DOMAIN F \cup {p} |->
            IF q = p THEN FillCall(EdgeById(Last(p)), R, 1, {}) ELSE F[q]]
    ELSE F

\* edge.fillRestrictions(restrictions, scopedParams), which _checkChildren
\* calls, and does not await, once its call p is to return a result
FillRestrictions(F, R, T, p) ==
    IF ~IsRoot(p) /\ T[p].pc = "done" /\ T[p].result.kind # "null"
    THEN [q \in DOMAIN F \cup {p} |->
            IF q = p THEN FillCall(EdgeById(Last(p)), R, 1, {}) ELSE F[q]]
    ELSE F

\* (mutant) if (from === to) return {}, as the first version of check did
EnterCheckFreshObject(T, h, p, to) ==
    IF NodeOf(p) = to
    THEN [tasks |-> WithTask(T, p, Done(Finish(p, h, Obj(EmptyObj))), {}),
          heap |-> h]
    ELSE IF FilterThrows(NodeOf(p), to)
    THEN [tasks |-> WithTask(T, p, Pending("rejected"), {}), heap |-> h]
    ELSE LET kids == ChildPaths(p, to)
         IN  [tasks |-> WithTask(T, p, Awaiting(kids), Range(kids)),
              heap |-> AddScopes(h, Range(kids))]

\* _check(from, to, params) entered by the call with path p
EnterCheck(T, h, p, to) ==
    IF NodeOf(p) = to
    THEN [tasks |-> WithTask(T, p, Done(Finish(p, h, Ref(ParamsOf(p)))), {}),
          heap |-> Filled(h, p, Ref(ParamsOf(p)))]
    ELSE IF FilterThrows(NodeOf(p), to)
    THEN [tasks |-> WithTask(T, p, Pending("rejected"), {}), heap |-> h]
    ELSE LET kids == ChildPaths(p, to)
         IN  [tasks |-> WithTask(T, p, Awaiting(kids), Range(kids)),
              heap |-> AddScopes(h, Range(kids))]

\* acl.check(permission, params, restrictions); a caller that gives no
\* restrictions passes the default {}, a hash without keys.
CallCheck(permission) ==
    /\ call.op = "none"
    /\ call' = [op |-> "check", to |-> permission]
    /\ LET n == EnterCheck(tasks, heap, <<>>, permission)
       IN  tasks' = n.tasks /\ heap' = n.heap
    /\ UNCHANGED <<accumulators, call2, defaultRole, edges, params0, evals, frames, records,
                   restrictions, fills>>

\* a second acl.check(permission, params) with the params of the first call
CallCheck2(permission) ==
    /\ call2.op = "none"
    /\ call2' = [op |-> "check", to |-> permission]
    /\ LET n == EnterCheck(tasks, heap, Second, permission)
       IN  tasks' = n.tasks /\ heap' = n.heap
    /\ UNCHANGED <<accumulators, defaultRole, edges, params0, call, evals, frames, records,
                   restrictions, fills>>

\* the promise of edge.check(scopedParams) settles and _checkChildren goes on
CheckResolve(p) ==
    /\ p \in DOMAIN tasks
    /\ CallOf(p).op = "check"
    /\ tasks[p].pc = "check"
    /\ Depth(p) < MaxDepth
    /\ LET edge == EdgeById(Last(p))
           sp == ScopedParams(p)
           view == View(heap, sp)
           out == RunCheck(edge.check, view)
           h1 == IF out.wkey # NoKey THEN [heap EXCEPT ![sp][out.wkey] = out.wval] ELSE heap
       IN  /\ evals' = evals \cup {Evaluation(heap, p, view, out)}
           /\ IF out.threw
              THEN tasks' = WithTask(tasks, p, Pending("rejected"), {}) /\ heap' = h1
              ELSE IF ~out.passed
              THEN tasks' = WithTask(tasks, p, Done(Null), {}) /\ heap' = h1
              ELSE LET n == EnterCheck(tasks, h1, p, CallOf(p).to)
                   IN  tasks' = n.tasks /\ heap' = n.heap
    /\ fills' = FillRestrictions(fills, restrictions, tasks', p)
    /\ UNCHANGED <<accumulators, call2, defaultRole, edges, params0, call, frames, records, restrictions>>

\* (mutant) the node returns as soon as one child call has returned a result
JoinFirstSuccess(p) ==
    /\ p \in DOMAIN tasks
    /\ CallOf(p).op = "check"
    /\ tasks[p].pc = "children"
    /\ LET kids == tasks[p].checks
       IN  /\ \/ \A i \in 1..Len(kids) : tasks[kids[i]].pc = "done"
              \/ \E i \in 1..Len(kids) :
                    tasks[kids[i]].pc = "done" /\ tasks[kids[i]].result.kind # "null"
           /\ tasks' = WithTask(tasks, p,
                  [tasks[p] EXCEPT
                     !.pc = "done",
                     !.result = Finish(p, heap,
                        MergePositive(heap, [i \in 1..Len(kids) |-> tasks[kids[i]].result]))],
                  {})
    /\ fills' = FillRestrictions(fills, restrictions, tasks', p)
    /\ UNCHANGED <<accumulators, call2, defaultRole, edges, params0, heap, call, evals, frames, records,
                   restrictions>>

\* await Promise.all(checks) fulfils: every child call has returned
Join(p) ==
    /\ p \in DOMAIN tasks
    /\ CallOf(p).op = "check"
    /\ tasks[p].pc = "children"
    /\ LET kids == tasks[p].checks
       IN  /\ \A i \in 1..Len(kids) : tasks[kids[i]].pc = "done"
           /\ tasks' = WithTask(tasks, p,
                  [tasks[p] EXCEPT
                     !.pc = "done",
                     !.result = Finish(p, heap,
                        MergePositive(heap, [i \in 1..Len(kids) |-> tasks[kids[i]].result]))],
                  {})
    /\ heap' = Filled(heap, p, tasks'[p].result)
    /\ fills' = FillRestrictions(fills, restrictions, tasks', p)
    /\ UNCHANGED <<accumulators, call2, defaultRole, edges, params0, call, evals, frames, records,
                   restrictions>>

\* await Promise.all(checks) rejects as soon as one child call has rejected
Reject(p) ==
    /\ p \in DOMAIN tasks
    /\ CallOf(p).op = "check"
    /\ tasks[p].pc = "children"
    /\ \E c \in Range(tasks[p].checks) : tasks[c].pc = "rejected"
    /\ tasks' = WithTask(tasks, p, Pending("rejected"), {})
    /\ UNCHANGED <<accumulators, call2, defaultRole, edges, params0, heap, call, evals, frames, records,
                   restrictions, fills>>

\* (mutant) the accumulator keeps the last grant only: an update made
\* between the read and the write of another fill is lost
FillSettleOverwrite(p) ==
    /\ p \in DOMAIN fills
    /\ fills[p].i # 0
    /\ LET edge == EdgeById(Last(p))
           key == KeysOf(restrictions)[fills[p].i]
       IN  /\ restrictions' =
                 [restrictions EXCEPT ![key] = {edge.restrictFns[key].grant}]
           /\ fills' = [fills EXCEPT
                 ![p] = FillCall(edge, restrictions, fills[p].i + 1, fills[p].invoked)]
    /\ UNCHANGED <<accumulators, call2, defaultRole, edges, params0, heap, call, tasks, evals, frames, records>>

\* (mutant) the rejection of a fill function reaches the promise of check
FillSettlePropagates(p) ==
    /\ p \in DOMAIN fills
    /\ fills[p].i # 0
    /\ LET edge == EdgeById(Last(p))
           key == KeysOf(restrictions)[fills[p].i]
           fn == edge.restrictFns[key]
       IN  IF FillRejects(fn)
           THEN /\ fills' = [fills EXCEPT ![p].i = 0]
                /\ tasks' = [tasks EXCEPT ![IF p[1] = 0 THEN Second ELSE <<>>] = Pending("rejected")]
                /\ UNCHANGED <<restrictions, heap>>
           ELSE /\ restrictions' = [restrictions EXCEPT
                      ![key] = @ \cup {GrantOf(heap, ScopedParams(p), fn)}]
                /\ fills' = [fills EXCEPT
                      ![p] = FillCall(edge, restrictions, fills[p].i + 1, fills[p].invoked)]
                /\ heap' = AfterFill(heap, p, fills[p].i + 1)
                /\ UNCHANGED tasks
    /\ UNCHANGED <<accumulators, call2, defaultRole, edges, params0, call, evals, frames, records>>

\* the promise a fill function returned settles: its grant is in the
\* accumulator, and the loop of fillRestrictions goes on to the next key; or
\* it rejects, the await in the loop throws and the loop is over
FillSettle(p) ==
    /\ p \in DOMAIN fills
    /\ fills[p].i # 0
    /\ LET edge == EdgeById(Last(p))
           key == KeysOf(restrictions)[fills[p].i]
           fn == edge.restrictFns[key]
       IN  IF FillRejects(fn)
           THEN /\ fills' = [fills EXCEPT ![p].i = 0]
                /\ UNCHANGED <<restrictions, heap>>
           ELSE /\ restrictions' = [restrictions EXCEPT
                      ![key] = @ \cup {GrantOf(heap, ScopedParams(p), fn)}]
                /\ fills' = [fills EXCEPT
                      ![p] = FillCall(edge, restrictions, fills[p].i + 1, fills[p].invoked)]
                /\ heap' = AfterFill(heap, p, fills[p].i + 1)
    /\ UNCHANGED <<accumulators, call2, defaultRole, edges, params0, call, tasks, evals, frames, records>>

\* ----------------------------------------------------------------- explain
\* acl.explain(permission, params)
CallExplain(permission) ==
    /\ call.op = "none"
    /\ call' = [op |-> "explain", to |-> permission]
    /\ tasks' = WithTask(tasks, <<>>, Pending("explain"), {})
    /\ frames' = <<[path |-> <<>>, i |-> 1]>>
    /\ UNCHANGED <<accumulators, call2, defaultRole, edges, params0, heap, evals, records, restrictions, fills>>

Top == frames[Len(frames)]
TopEdges == EdgesFrom(NodeOf(Top.path))

\* (mutant) break: the loop leaves the edges after the current one aside
SkipRest == [frames EXCEPT ![Len(frames)].i = Len(TopEdges) + 1]

\* the loop goes on with the next edge
Advance == [frames EXCEPT ![Len(frames)].i = @ + 1]

Explaining ==
    /\ call.op = "explain"
    /\ tasks[<<>>].pc = "explain"
    /\ Len(frames) > 0

\* (mutant) result.unshift(record)
Unshift(result, record) == <<record>> \o result

\* result.push(record); the records of a recursive call are pushed onto the
\* same sequence as they are made, which is what result.push(...children)
\* leaves once the call has returned
Push(result, record) == Append(result, record)

\* if (!this._canReach(edge.to, to)) continue
ExplainSkip ==
    /\ Explaining
    /\ Top.i <= Len(TopEdges)
    /\ ~_canReach(TopEdges[Top.i].to, call.to)
    /\ ~Overflows(TopEdges[Top.i].to, call.to)
    /\ frames' = Advance
    /\ UNCHANGED <<accumulators, call2, defaultRole, edges, params0, heap, call, tasks, evals, records,
                   restrictions, fills>>

\* (mutant) the recursion made without the test of checkPassed
ExplainEdgeAlwaysRecurses ==
    /\ Explaining
    /\ Top.i <= Len(TopEdges)
    /\ _canReach(TopEdges[Top.i].to, call.to)
    /\ Len(Top.path) + 1 < MaxDepth
    /\ LET edge == TopEdges[Top.i]
           p == Append(Top.path, edge.id)
           sp == ScopedParams(p)
           h0 == AddScopes(heap, {p})
           view == View(h0, sp)
           out == RunCheck(edge.check, view)
       IN  /\ evals' = evals \cup {Evaluation(h0, p, view, out)}
           /\ heap' = IF out.wkey # NoKey THEN [h0 EXCEPT ![sp][out.wkey] = out.wval] ELSE h0
           /\ IF out.threw
              THEN /\ tasks' = WithTask(tasks, <<>>, Pending("rejected"), {})
                   /\ UNCHANGED <<frames, records>>
              ELSE /\ records' = Push(records,
                          [explain |-> edge.explain, to |-> edge.to,
                           checkPassed |-> out.passed, params |-> Ref(sp)])
                   /\ frames' = IF edge.to # call.to
                                 THEN Append(Advance, [path |-> p, i |-> 1])
                                 ELSE Advance
                   /\ UNCHANGED tasks
    /\ UNCHANGED <<accumulators, call2, defaultRole, edges, params0, call, restrictions, fills>>

\* one iteration of the loop: scope, predicate, record, recursion
ExplainEdge ==
    /\ Explaining
    /\ Top.i <= Len(TopEdges)
    /\ _canReach(TopEdges[Top.i].to, call.to)
    /\ Len(Top.path) + 1 < MaxDepth
    /\ LET edge == TopEdges[Top.i]
           p == Append(Top.path, edge.id)
           sp == ScopedParams(p)
           h0 == AddScopes(heap, {p})
           view == View(h0, sp)
           out == RunCheck(edge.check, view)
       IN  /\ evals' = evals \cup {Evaluation(h0, p, view, out)}
           /\ heap' = IF out.wkey # NoKey THEN [h0 EXCEPT ![sp][out.wkey] = out.wval] ELSE h0
           /\ IF out.threw
              THEN /\ tasks' = WithTask(tasks, <<>>, Pending("rejected"), {})
                   /\ UNCHANGED <<frames, records>>
              ELSE /\ records' = Push(records,
                          [explain |-> edge.explain, to |-> edge.to,
                           checkPassed |-> out.passed, params |-> Ref(sp)])
                   /\ frames' = IF edge.to # call.to /\ out.passed
                                 THEN Append(Advance, [path |-> p, i |-> 1])
                                 ELSE Advance
                   /\ UNCHANGED tasks
    /\ UNCHANGED <<accumulators, call2, defaultRole, edges, params0, call, restrictions, fills>>

\* this._canReach(edge.to, to) throws: the promise of explain rejects
ExplainOverflow ==
    /\ Explaining
    /\ Top.i <= Len(TopEdges)
    /\ Overflows(TopEdges[Top.i].to, call.to)
    /\ tasks' = WithTask(tasks, <<>>, Pending("rejected"), {})
    /\ UNCHANGED <<accumulators, call2, defaultRole, edges, params0, heap, call, evals, frames, records,
                   restrictions, fills>>

\* return result
ExplainReturn ==
    /\ Explaining
    /\ Top.i > Len(TopEdges)
    /\ frames' = Front(frames)
    /\ tasks' = IF Len(frames) = 1 THEN WithTask(tasks, <<>>, Pending("done"), {}) ELSE tasks
    /\ UNCHANGED <<accumulators, call2, defaultRole, edges, params0, heap, call, evals, records,
                   restrictions, fills>>

\* ----------------------------------------------------------- specification
\* the caller's context: no key, the key the predicates expect, another key
Contexts == {[EmptyObj EXCEPT !["key"] = v] : v \in {Absent, Val(1), Val(2)}}

Init ==
    /\ defaultRole = "public"
    /\ \E definitions \in DefinitionLists : edges = AclEdges(definitions)
    /\ params0 \in Contexts
    /\ heap = (<<>> :> params0)
    /\ call = [op |-> "none", to |-> "public"]
    /\ tasks = (<<>> :> Pending("idle"))
    /\ evals = {}
    /\ frames = <<>>
    /\ records = <<>>
    /\ restrictions = EmptyAccumulators({})
    /\ fills = <<>>
    /\ NewAccumulators

Paths == {p \in DOMAIN tasks : ~IsRoot(p)}

Next ==
    \/ \E permission \in Permissions : CallCheck(permission)
    \/ \E p \in Paths : CheckResolve(p)
    \/ \E p \in DOMAIN tasks : Join(p)
    \/ \E p \in DOMAIN tasks : Reject(p)
    \/ \E permission \in Permissions : CallExplain(permission)
    \/ ExplainSkip
    \/ ExplainEdge
    \/ ExplainReturn

Spec == Init /\ [][Next]_vars

\* ------------------------------------------- specification with restrictions
\* Definitions that carry fill functions, with predicates that pass, fail
\* or throw.
FillCheckFns == {NoCheck, Bind("user", Val(1), FALSE), Throwing}

FillDefinitionLists ==
    UNION { { [i \in 1..Len(Topologies[s]) |->
                 [from |-> Topologies[s][i].from, to |-> Topologies[s][i].to,
                  explain |-> i, check |-> P[i], restrict |-> Q[i]]] :
              P \in [1..Len(Topologies[s]) -> FillCheckFns],
              Q \in {f \in [1..Len(Topologies[s]) -> UNION {Restricts(i) : i \in 1..3}] :
                        \A i \in 1..Len(Topologies[s]) : f[i] \in Restricts(i)} } :
            s \in 1..Len(Topologies) }

\* The caller passes a hash of new accumulators.
InitFill ==
    /\ defaultRole = "public"
    /\ \E definitions \in FillDefinitionLists : edges = AclEdges(definitions)
    /\ params0 = EmptyObj
    /\ heap = (<<>> :> params0)
    /\ call = [op |-> "none", to |-> "public"]
    /\ tasks = (<<>> :> Pending("idle"))
    /\ evals = {}
    /\ frames = <<>>
    /\ records = <<>>
    /\ restrictions \in {EmptyAccumulators({"fields"}), EmptyAccumulators(RKeySet)}
    /\ fills = <<>>
    /\ NewAccumulators

NextFill ==
    \/ Next
    \/ \E p \in DOMAIN fills : FillSettle(p)

SpecFill == InitFill /\ [][NextFill]_vars

\* ---------------------- specification with fills that write, read and fail
\* One declaration fans out to a node short of the target, to the target
\* and to a dead end; the second one leads from the node to the target.
FrozenTopology ==
    << [from |-> Str("public"), to |-> Arr(<<"a", "t", "x">>)],
       [from |-> Str("a"), to |-> Str("t")] >>

FrozenCheckFns == {NoCheck, Bind("user", Val(1), TRUE), Bind("user", Val(1), FALSE), Throwing}

\* Definition.restrict of the definition declared at position i
FrozenRestricts(i) ==
    {NoRestrict,
     [fields |-> Writing(ToString(i)), ids |-> Allow(ToString(i))],
     [fields |-> WritingStrict(ToString(i)), ids |-> Allow(ToString(i))],
     [fields |-> Failing(ToString(i)), ids |-> Allow(ToString(i))],
     [fields |-> Reading("user"), ids |-> Reading("key")],
     [NoRestrict EXCEPT !["ids"] = Writing(ToString(i))]}

FrozenDefinitionLists ==
    { [i \in 1..Len(FrozenTopology) |->
          [from |-> FrozenTopology[i].from, to |-> FrozenTopology[i].to,
           explain |-> i, check |-> P[i], restrict |-> Q[i]]] :
      P \in [1..Len(FrozenTopology) -> FrozenCheckFns],
      Q \in {f \in [1..Len(FrozenTopology) -> UNION {FrozenRestricts(i) : i \in 1..2}] :
                \A i \in 1..Len(FrozenTopology) : f[i] \in FrozenRestricts(i)} }

FrozenContexts == {EmptyObj, [EmptyObj EXCEPT !["key"] = Val(2)]}

\* check(permission, params) and check(permission, params, restrictions):
\* restrictions is {} by default, or a hash of new accumulators.
InitFrozen ==
    /\ defaultRole = "public"
    /\ \E definitions \in FrozenDefinitionLists : edges = AclEdges(definitions)
    /\ params0 \in FrozenContexts
    /\ heap = (<<>> :> params0)
    /\ call = [op |-> "none", to |-> "public"]
    /\ tasks = (<<>> :> Pending("idle"))
    /\ evals = {}
    /\ frames = <<>>
    /\ records = <<>>
    /\ restrictions \in {EmptyAccumulators(K) : K \in SUBSET RKeySet}
    /\ fills = <<>>
    /\ NewAccumulators

SpecFrozen == InitFrozen /\ [][NextFill]_vars

\* ------------------------------------------------ specification with fairness
\* Acyclic graphs whose predicates pass, fail, throw or read the context.
LiveCheckFns == {NoCheck, Bind("user", Val(1), FALSE), Throwing, KeyEq("key", Val(1))}

LiveTopologies == Append(Topologies, FrozenTopology)

LiveDefinitionLists ==
    UNION { { [i \in 1..Len(LiveTopologies[s]) |->
                 [from |-> LiveTopologies[s][i].from, to |-> LiveTopologies[s][i].to,
                  explain |-> i, check |-> P[i], restrict |-> NoRestrict]] :
              P \in [1..Len(LiveTopologies[s]) -> LiveCheckFns] } :
            s \in 1..Len(LiveTopologies) }

LiveContexts == {EmptyObj, [EmptyObj EXCEPT !["key"] = Val(1)]}

InitLive ==
    /\ defaultRole = "public"
    /\ \E definitions \in LiveDefinitionLists : edges = AclEdges(definitions)
    /\ params0 \in LiveContexts
    /\ heap = (<<>> :> params0)
    /\ call = [op |-> "none", to |-> "public"]
    /\ tasks = (<<>> :> Pending("idle"))
    /\ evals = {}
    /\ frames = <<>>
    /\ records = <<>>
    /\ restrictions = EmptyAccumulators({})
    /\ fills = <<>>
    /\ NewAccumulators

\* The steps the event loop takes by itself once a call is made: the promise
\* of a predicate that was invoked settles, and a continuation that is ready
\* runs.
Progress ==
    \/ \E p \in Paths : CheckResolve(p)
    \/ \E p \in DOMAIN tasks : Join(p)
    \/ \E p \in DOMAIN tasks : Reject(p)
    \/ ExplainSkip
    \/ ExplainEdge
    \/ ExplainReturn

\* Every predicate invoked eventually resolves and the event loop does not
\* stop while a continuation is ready; whether a call is made is up to the
\* caller.
SpecLive == InitLive /\ [][Next]_vars /\ WF_vars(Progress)

\* ------------------------------------------- specification with cyclic graphs
\* The constructor accepts any list of definitions, cyclic ones included.
CyclicTopologies ==
    << \* a cycle public -> a -> public declared after the edge to the target
       << [from |-> Str("public"), to |-> Arr(<<"t", "x">>)],
          [from |-> Str("public"), to |-> Str("a")],
          [from |-> Str("a"), to |-> Str("public")] >>,
       \* a cycle b -> c -> b declared before the edge to the target
       << [from |-> Str("public"), to |-> Str("b")],
          [from |-> Str("b"), to |-> Str("c")],
          [from |-> Str("c"), to |-> Arr(<<"b", "t">>)] >> >>

CyclicDefinitionLists ==
    UNION { { [i \in 1..Len(CyclicTopologies[s]) |->
                 [from |-> CyclicTopologies[s][i].from, to |-> CyclicTopologies[s][i].to,
                  explain |-> i, check |-> P[i], restrict |-> NoRestrict]] :
              P \in [1..Len(CyclicTopologies[s]) -> FillCheckFns] } :
            s \in 1..Len(CyclicTopologies) }

InitCyclic ==
    /\ defaultRole = "public"
    /\ \E definitions \in CyclicDefinitionLists : edges = AclEdges(definitions)
    /\ params0 = EmptyObj
    /\ heap = (<<>> :> params0)
    /\ call = [op |-> "none", to |-> "public"]
    /\ tasks = (<<>> :> Pending("idle"))
    /\ evals = {}
    /\ frames = <<>>
    /\ records = <<>>
    /\ restrictions = EmptyAccumulators({})
    /\ fills = <<>>
    /\ NewAccumulators

NextCyclic ==
    \/ Next
    \/ ExplainOverflow

SpecCyclic == InitCyclic /\ [][NextCyclic]_vars

\* ------------------------------- specification with malformed declarations
\* A declaration without `from` or without `to`: the constructor reads
\* undefined, which is not an array, and wraps it into [undefined].
Missing == Str(Absent)

MalformedTopologies ==
    << \* a declaration without `to`
       << [from |-> Str("public"), to |-> Str("a")],
          [from |-> Str("a"), to |-> Str("t")],
          [from |-> Str("public"), to |-> Missing] >>,
       \* a declaration without `from`
       << [from |-> Str("public"), to |-> Str("t")],
          [from |-> Missing, to |-> Str("t")],
          [from |-> Str("public"), to |-> Arr(<<"x", "t">>)] >> >>

MalformedDefinitionLists ==
    UNION { { [i \in 1..Len(MalformedTopologies[s]) |->
                 [from |-> MalformedTopologies[s][i].from,
                  to |-> MalformedTopologies[s][i].to,
                  explain |-> i, check |-> P[i], restrict |-> NoRestrict]] :
              P \in [1..Len(MalformedTopologies[s]) -> FillCheckFns] } :
            s \in 1..Len(MalformedTopologies) }

\* new Acl('public', definitions) has returned
InitMalformed ==
    /\ defaultRole = "public"
    /\ \E definitions \in MalformedDefinitionLists : edges = AclEdges(definitions)
    /\ params0 = EmptyObj
    /\ heap = (<<>> :> params0)
    /\ call = [op |-> "none", to |-> "public"]
    /\ tasks = (<<>> :> Pending("idle"))
    /\ evals = {}
    /\ frames = <<>>
    /\ records = <<>>
    /\ restrictions = EmptyAccumulators({})
    /\ fills = <<>>
    /\ NewAccumulators

SpecMalformed == InitMalformed /\ [][Next]_vars

\* ------------------------------------- specification of the accumulators
\* The calls a fill function can make, with arrays of up to two elements.
MaxCalls == 3
Ids == {1, 2}
Fields == {"f", "g"}
IdArrays == {<<i>> : i \in Ids} \cup {<<2, 1>>}
FieldArrays == {<<>>, <<"f">>, <<"f", "g">>}

\* Map.has and Map.get on the entries of a Map
MapHas(m, id) == \E i \in 1..Len(m) : m[i].id = id
MapGet(m, id) == m[CHOOSE i \in 1..Len(m) : m[i].id = id].fields

\* Array.from(map.keys()): the keys in insertion order
MapKeys(m) == [i \in 1..Len(m) |-> m[i].id]

\* (mutant) this._byId.set(id, new Set(fields)) whether the id has a set or not
SetAlways(m, id, fields) ==
    IF MapHas(m, id)
    THEN [i \in 1..Len(m) |->
            IF m[i].id = id THEN [id |-> id, fields |-> Range(fields)] ELSE m[i]]
    ELSE Append(m, [id |-> id, fields |-> Range(fields)])

\* one turn of the loop of allowSome: add the fields to the set of the id,
\* or set(id, new Set(fields)), which appends a new entry
AllowOne(m, id, fields) ==
    IF MapHas(m, id)
    THEN [i \in 1..Len(m) |->
            IF m[i].id = id THEN [m[i] EXCEPT !.fields = @ \cup Range(fields)] ELSE m[i]]
    ELSE Append(m, [id |-> id, fields |-> Range(fields)])

\* for (let id of ids) ...
RECURSIVE AllowSomeLoop(_, _, _)
AllowSomeLoop(m, ids, fields) ==
    IF ids = <<>> THEN m
    ELSE AllowSomeLoop(AllowOne(m, Head(ids), fields), Tail(ids), fields)

\* (mutant) this._others.add(fields[0])
AddFirst(set, fields) == IF fields = <<>> THEN set ELSE set \cup {Head(fields)}

\* for (let field of fields) set.add(field)
AddEach(set, fields) == set \cup Range(fields)

\* (mutant) the field is looked up in the set of any id
AllowedOnAnyId(byId, others, id, field) ==
    \/ field \in others
    \/ \E i \in 1..Len(byId) : field \in byId[i].fields

\* FieldsByIdRestriction.fieldIsAllowed on an object with these members
AllowedById(byId, others, id, field) ==
    IF field \in others THEN TRUE
    ELSE IF MapHas(byId, id) THEN field \in MapGet(byId, id)
    ELSE FALSE

fieldIsAllowed(id, field) == AllowedById(_byId, _others, id, field)

\* (mutant) this._byId.size == 0
NoIdGranted == Len(_byId) = 0

hasIdRestriction == Cardinality(_others) = 0

\* getAllowedIds(): throws or returns the array of ids
getAllowedIds ==
    IF ~hasIdRestriction
    THEN [threw |-> TRUE, ids |-> <<>>]
    ELSE [threw |-> FALSE, ids |-> MapKeys(_byId)]

\* FieldsRestriction.fieldIsAllowed
fieldAllowed(field) == field \in _fields

allowSome(ids, fields) ==
    /\ Len(log) < MaxCalls
    /\ _byId' = AllowSomeLoop(_byId, ids, fields)
    /\ log' = Append(log, [op |-> "allowSome", ids |-> ids, fields |-> fields])
    /\ UNCHANGED <<_others, _fields>>
    /\ UNCHANGED <<defaultRole, edges, params0, heap, call, tasks, evals, frames,
                   records, restrictions, fills, call2>>

allowAll(fields) ==
    /\ Len(log) < MaxCalls
    /\ _others' = AddEach(_others, fields)
    /\ log' = Append(log, [op |-> "allowAll", ids |-> <<>>, fields |-> fields])
    /\ UNCHANGED <<_byId, _fields>>
    /\ UNCHANGED <<defaultRole, edges, params0, heap, call, tasks, evals, frames,
                   records, restrictions, fills, call2>>

allow(fields) ==
    /\ Len(log) < MaxCalls
    /\ _fields' = AddEach(_fields, fields)
    /\ log' = Append(log, [op |-> "allow", ids |-> <<>>, fields |-> fields])
    /\ UNCHANGED <<_byId, _others>>
    /\ UNCHANGED <<defaultRole, edges, params0, heap, call, tasks, evals, frames,
                   records, restrictions, fills, call2>>

\* The two objects as constructed; no Acl call is in progress.
InitAccumulators ==
    /\ defaultRole = "public"
    /\ edges = AclEdges(<<>>)
    /\ params0 = EmptyObj
    /\ heap = (<<>> :> params0)
    /\ call = [op |-> "none", to |-> "public"]
    /\ tasks = (<<>> :> Pending("idle"))
    /\ evals = {}
    /\ frames = <<>>
    /\ records = <<>>
    /\ restrictions = EmptyAccumulators({})
    /\ fills = <<>>
    /\ NewAccumulators

NextAccumulators ==
    \/ \E ids \in IdArrays : \E fields \in FieldArrays : allowSome(ids, fields)
    \/ \E fields \in FieldArrays : allowAll(fields)
    \/ \E fields \in FieldArrays : allow(fields)

SpecAccumulators == InitAccumulators /\ [][NextAccumulators]_vars

\* ------------------------------------ specification with a concurrent call
\* Predicates that bind a key, read it, or throw.
TwoCheckFns == {Bind("user", Val(1), TRUE), KeyEq("user", Val(1)), Throwing}

TwoDefinitionLists ==
    UNION { { [i \in 1..Len(Topologies[s]) |->
                 [from |-> Topologies[s][i].from, to |-> Topologies[s][i].to,
                  explain |-> i, check |-> P[i], restrict |-> NoRestrict]] :
              P \in [1..Len(Topologies[s]) -> TwoCheckFns] } :
            s \in {1, 2} }

TwoContexts == {EmptyObj, [EmptyObj EXCEPT !["user"] = Val(1)]}
TwoPermissions == {"t"}

InitTwo ==
    /\ defaultRole = "public"
    /\ \E definitions \in TwoDefinitionLists : edges = AclEdges(definitions)
    /\ params0 \in TwoContexts
    /\ heap = (<<>> :> params0)
    /\ call = [op |-> "none", to |-> "public"]
    /\ tasks = (<<>> :> Pending("idle"))
    /\ evals = {}
    /\ frames = <<>>
    /\ records = <<>>
    /\ restrictions = EmptyAccumulators({})
    /\ fills = <<>>
    /\ NewAccumulators

\* a call of check or explain, and a second check that starts at any time
NextTwo ==
    \/ Next
    \/ \E permission \in TwoPermissions : CallCheck2(permission)

SpecTwo == InitTwo /\ [][NextTwo]_vars

\* ============================================================== properties
Checking == call.op = "check"
Completed == tasks[<<>>].pc \in {"done", "rejected"}
Returned == tasks[<<>>].pc = "done"
Threw == tasks[<<>>].pc = "rejected"
Result == tasks[<<>>].result
Granted == Returned /\ Result.kind # "null"

\* The properties a predicate leaves visible to the edges after it.
After(view, fn) ==
    LET out == RunCheck(fn, view)
    IN  IF out.wkey # NoKey THEN [view EXCEPT ![out.wkey] = out.wval] ELSE view

Passes(fn, view) == ~RunCheck(fn, view).threw /\ RunCheck(fn, view).passed

\* Some chain of edges leads from `from` to `to` and every predicate on it
\* returns true on the caller's context layered with the bindings of the
\* edges before it.
RECURSIVE PassingPath(_, _, _)
PassingPath(from, to, view) ==
    \/ from = to
    \/ \E e \in Range(EdgesFrom(from)) :
          /\ Passes(e.check, view)
          /\ PassingPath(e.to, to, After(view, e.check))

\* The nodes from which a chain of edges leads to `to`, as a least fixed point.
RECURSIVE Ancestors(_, _)
Ancestors(S, n) ==
    LET T == S \cup {e.from : e \in {x \in AllEdges : x.to \in S}}
    IN  IF n = 0 \/ T = S THEN S ELSE Ancestors(T, n - 1)
ReachesTo(to) == Ancestors({to}, Cardinality(Nodes))

\* Every chain of edges from `from` towards `to` is stopped by a predicate
\* that returns false (none exists, in particular, when `to` is unknown).
RECURSIVE DeniedByFalse(_, _, _)
DeniedByFalse(from, to, view) ==
    /\ from # to
    /\ \A e \in Range(EdgesFrom(from)) :
          e.to \in ReachesTo(to) =>
             /\ ~RunCheck(e.check, view).threw
             /\ RunCheck(e.check, view).passed =>
                   DeniedByFalse(e.to, to, After(view, e.check))

\* C1: check returns a non-null result iff a path from the default node to
\* the target exists on which every predicate returns true on its scope
\* layered over the bindings of the preceding edges; otherwise it returns null.
C1_CheckIffPassingPath ==
    (Checking /\ Completed) =>
        /\ Returned
        /\ (Result.kind # "null") <=> PassingPath(defaultRole, call.to, params0)

\* The equivalence of C1 for the calls in which no evaluated predicate threw
\* (holds; the calls left out are those of C3).
C1_IffWhenNoFault ==
    (Checking /\ Completed /\ \A ev \in evals : ~ev.threw) =>
        /\ Returned
        /\ (Result.kind # "null") <=> PassingPath(defaultRole, call.to, params0)

\* C2: a check whose target is the starting node succeeds without evaluating
\* any predicate and returns the caller's context itself, unchanged.
C2_SelfCheckReturnsParams ==
    (Checking /\ call.to = defaultRole) =>
        /\ tasks[<<>>] = Done(Ref(<<>>))
        /\ heap[<<>>] = params0
        /\ evals = {}
        /\ DOMAIN tasks = {<<>>}

C2_Witness ==
    /\ Checking
    /\ call.to = defaultRole
    /\ Returned
    /\ params0 = EmptyObj
    /\ Len(EdgesFrom(defaultRole)) > 1

\* C3: a predicate that throws is treated as a failed edge: check does not
\* throw, and a sibling branch whose predicates all pass still makes check
\* return a non-null result.
C3_PredicateFaultContained ==
    Checking =>
        /\ ~Threw
        /\ (Completed /\ PassingPath(defaultRole, call.to, params0)) => Granted

\* C4: denial is a normal return value: when every path towards the target
\* is stopped by a predicate returning false, when no structural path exists
\* or when the target is unknown, check returns null; and check never throws
\* unless a predicate threw.
C4_DenialReturnsNull ==
    Checking =>
        /\ (Completed /\ DeniedByFalse(defaultRole, call.to, params0)) =>
               (Returned /\ Result = Null)
        /\ Threw => \E ev \in evals : ev.threw

C4_Witness ==
    /\ Checking
    /\ Returned
    /\ Result = Null
    /\ DeniedByFalse(defaultRole, call.to, params0)
    /\ \E ev \in evals : ~ev.passed /\ Len(ev.path) > 1
    /\ defaultRole \in ReachesTo(call.to)

\* The bindings visible after the edges of call path q, from the caller's
\* context on: each predicate's binding shadows the earlier ones.
RECURSIVE PathView(_)
PathView(q) ==
    IF Len(q) = 0 THEN params0
    ELSE After(PathView(Front(q)), EdgeById(Last(q)).check)

\* The values the predicates of the edges of call path q bind to key k.
BoundOn(q, k) ==
    {EdgeById(q[j]).check.wval :
        j \in {i \in 1..Len(q) : /\ EdgeById(q[i]).check.t = "const"
                                  /\ EdgeById(q[i]).check.wkey = k}}

\* C5: a key written by a predicate into its edge's scope is never visible to
\* the predicate of a sibling edge nor to a predicate of the sibling's
\* subtree: what a predicate reads under a key is the caller's value or a
\* value bound by an edge before it on its own path, in every interleaving.
C5_WriteIsolation ==
    \A ev \in evals : \A k \in Keys :
        ev.saw[k] \in {params0[k]} \cup BoundOn(Front(ev.path), k)

C5_Witness ==
    \E ev \in evals :
        /\ Len(ev.path) > 1
        /\ \E kv \in ev.foreign : ev.saw[kv[1]] # kv[2]

\* C6: after check or explain completes, with success or denial, the
\* caller's context has exactly the keys and values it had before.
C6_RootContextUnchanged ==
    Completed => heap[<<>>] = params0

C6_Witness ==
    /\ Completed
    /\ params0 # EmptyObj
    /\ \E id \in DOMAIN heap \ {<<>>} : heap[id]["user"] # Absent
    /\ \E ev \in evals : ~ev.passed

\* C7: a predicate sees every key of the caller's context and every key
\* bound by the predicates of the edges before it on its path, the nearest
\* binding shadowing the earlier ones.
C7_ReadThrough ==
    \A ev \in evals : ev.saw = PathView(Front(ev.path))

C7_Witness ==
    \E ev \in evals :
        /\ Len(ev.path) = 3
        /\ ev.saw["key"] # Absent
        /\ BoundOn(<<ev.path[1]>>, "user") # {}
        /\ BoundOn(<<ev.path[2]>>, "user") # {}
        /\ BoundOn(<<ev.path[1]>>, "user") # BoundOn(<<ev.path[2]>>, "user")
        /\ ev.saw["user"] \in BoundOn(<<ev.path[2]>>, "user")

\* The calls a call awaited that returned a result holding key k, in order.
Succeeded(p, k) ==
    {i \in 1..Len(tasks[p].checks) :
        /\ tasks[tasks[p].checks[i]].pc = "done"
        /\ tasks[tasks[p].checks[i]].result.kind = "obj"
        /\ tasks[tasks[p].checks[i]].result.own[k] # Absent}
ResultOf(p, i) == tasks[tasks[p].checks[i]].result.own
Max(S) == CHOOSE x \in S : \A y \in S : y <= x

\* C8: when an edge and a deeper edge of the same successful path bind the
\* same key, the merged context of the branch carries the value bound closer
\* to the target: the value returned by the recursion, not the edge's own.
C8_DeeperBindingWins ==
    \A p \in Paths : \A k \in Keys :
        (tasks[p].pc = "done" /\ tasks[p].result.kind = "obj" /\ Succeeded(p, k) # {}) =>
            tasks[p].result.own[k] \in {ResultOf(p, i)[k] : i \in Succeeded(p, k)}

C8_Witness ==
    \E p \in Paths : \E k \in Keys :
        /\ tasks[p].pc = "done"
        /\ tasks[p].result.kind = "obj"
        /\ Succeeded(p, k) # {}
        /\ heap[ScopedParams(p)][k] # Absent
        /\ tasks[p].result.own[k] # heap[ScopedParams(p)][k]

\* C9: when several edges leaving one node lead to successful branches that
\* bind the same key, the result carries the value of the branch declared
\* last, and a key bound by one branch only is present, whatever the order
\* in which the branches complete.
C9_LastDeclaredWins ==
    \A p \in DOMAIN tasks : \A k \in Keys :
        (Checking /\ tasks[p].pc = "done" /\ Succeeded(p, k) # {}) =>
            /\ tasks[p].result.kind = "obj"
            /\ tasks[p].result.own[k] = ResultOf(p, Max(Succeeded(p, k)))[k]

C9_Witness ==
    /\ Checking
    /\ Granted
    /\ \E i, j \in Succeeded(<<>>, "user") :
          /\ i < j
          /\ j = Max(Succeeded(<<>>, "user"))
          /\ ResultOf(<<>>, i)["user"] # ResultOf(<<>>, j)["user"]
          /\ Result.own["user"] = ResultOf(<<>>, j)["user"]
    /\ Cardinality(Succeeded(<<>>, "token")) = 1
    /\ Max(Succeeded(<<>>, "token")) < Max(Succeeded(<<>>, "user"))
    /\ Result.own["token"] # Absent

\* The call paths that reached the target through passed predicates.
SuccessfulPaths ==
    {q \in Paths : /\ NodeOf(q) = call.to
                   /\ tasks[q].pc = "done"
                   /\ tasks[q].result.kind = "obj"}

\* C10: on success the result of check contains every key that a predicate
\* bound on an edge of a successful path.
C10_BoundKeysReturned ==
    (Checking /\ Granted) =>
        \A q \in SuccessfulPaths : \A k \in Keys :
            BoundOn(q, k) # {} => OwnProps(heap, Result)[k] # Absent

C10_Witness ==
    /\ Checking
    /\ Granted
    /\ \E q \in SuccessfulPaths :
          /\ Len(q) > 1
          /\ BoundOn(<<q[1]>>, "user") # {}
          /\ BoundOn(<<q[Len(q)]>>, "token") # {}
          /\ Result.own["user"] \in BoundOn(<<q[1]>>, "user")
          /\ Result.own["token"] # Absent

\* ------------------------------------------------------------ restrictions
\* The calls p whose edge's fill function for key k has been invoked.
Invoked(k) == {p \in DOMAIN fills : k \in fills[p].invoked}
AnyInvoked == \E k \in RKeySet : Invoked(k) # {}
FillsSettled == \A p \in DOMAIN fills : fills[p].i = 0

\* The predicate of the edge of call p returned true and the check made from
\* the edge's destination reached the target.
BranchSucceeded(p) ==
    /\ \E ev \in evals : ev.path = p /\ ev.passed /\ ~ev.threw
    /\ \E q \in SuccessfulPaths : p \in Prefixes(q)

\* C11: a fill function of an edge is invoked only after the edge's
\* predicate returned true and the recursive check from its destination
\* reached the target; hence a check during which a fill was invoked returns
\* a non-null result.
C11_FillImpliesGrant ==
    Checking =>
        /\ \A k \in RKeySet : \A p \in Invoked(k) : BranchSucceeded(p)
        /\ (Completed /\ AnyInvoked) => Granted

\* The first half of C11 alone, and its second half for the checks that
\* return (holds; a check that rejects is the case of C3).
C11_FillAfterBranchSuccess ==
    Checking =>
        /\ \A k \in RKeySet : \A p \in Invoked(k) : BranchSucceeded(p)
        /\ (Returned /\ AnyInvoked) => Granted

\* C12: an accumulator sees fills only from edges of a branch that is part
\* of a successful path, and the fill function of such an edge is invoked
\* once per top level check, also when two successful paths share the edge.
C12_FillOncePerEdge ==
    Checking =>
        \A e \in AllEdges : \A k \in RKeySet :
            LET calls == {p \in Invoked(k) : Last(p) = e.id}
            IN  /\ \A p \in calls : BranchSucceeded(p)
                /\ Cardinality(calls) <= 1

\* C13: when the top level check returns, every fill the check has triggered
\* has run to completion: none is still awaited and none is still to be
\* invoked.
C13_FillsDoneAtReturn ==
    (Checking /\ Returned) => FillsSettled

\* The grants for key k of the fill functions of the edges that lie on a
\* path from `from` to `to` on which every predicate returns true.
RECURSIVE Grants(_, _, _, _)
Grants(from, to, view, k) ==
    IF from = to THEN {}
    ELSE UNION { IF Passes(e.check, view) /\ PassingPath(e.to, to, After(view, e.check))
                 THEN (IF e.restrictFns[k].t # "undef" THEN {e.restrictFns[k].grant} ELSE {})
                      \cup Grants(e.to, to, After(view, e.check), k)
                 ELSE {} :
                 e \in Range(EdgesFrom(from)) }

HasFill(p) == \E k \in DOMAIN restrictions : EdgeById(Last(p)).restrictFns[k].t # "undef"

\* C14: the accumulators hold grants of edges of succeeding paths only, and
\* once check has returned and the fills have run they hold exactly those
\* grants, whatever branches failed beside them, by a predicate returning
\* false or deeper in the recursion.
C14_FailedBranchesGrantNothing ==
    Checking =>
        \A k \in DOMAIN restrictions :
            /\ restrictions[k] \subseteq Grants(defaultRole, call.to, params0, k)
            /\ (Returned /\ FillsSettled) =>
                   restrictions[k] = Grants(defaultRole, call.to, params0, k)

C14_Witness ==
    /\ Checking
    /\ Returned
    /\ FillsSettled
    /\ restrictions["fields"] # {}
    /\ \E ev \in evals : ~ev.passed /\ HasFill(ev.path)
    /\ \E ev \in evals :
          /\ ev.passed
          /\ HasFill(ev.path)
          /\ tasks[ev.path].pc = "done"
          /\ tasks[ev.path].result.kind = "null"

\* ------------------------------------------------------------------ pruning
\* The call path of the edge a record of explain was made for.
RecordPath(i) == records[i].params.id

\* C15: during check and explain the predicate of an edge whose destination
\* cannot structurally reach the target is never evaluated, and no
\* explanation record and no fill is made for such an edge.
C15_StaticPruning ==
    /\ \A ev \in evals : EdgeById(Last(ev.path)).to \in ReachesTo(call.to)
    /\ \A i \in 1..Len(records) : EdgeById(Last(RecordPath(i))).to \in ReachesTo(call.to)
    /\ \A p \in DOMAIN fills : EdgeById(Last(p)).to \in ReachesTo(call.to)
    /\ \A p \in DOMAIN heap \ {<<>>} : EdgeById(Last(p)).to \in ReachesTo(call.to)

C15_Witness ==
    /\ Checking
    /\ Returned
    /\ FillsSettled
    /\ restrictions["fields"] # {}
    /\ \E e \in Range(EdgesFrom(defaultRole)) :
          /\ e.to \notin ReachesTo(call.to)
          /\ e.check = AlwaysTrue
          /\ e.restrictFns["fields"].t = "allow"

\* Every edge of every path from `from` to `to` on which all predicates
\* return true is kept by the oracle.
RECURSIVE PassingPathsKept(_, _, _)
PassingPathsKept(from, to, view) ==
    \/ from = to
    \/ \A e \in Range(EdgesFrom(from)) :
          (Passes(e.check, view) /\ PassingPath(e.to, to, After(view, e.check))) =>
              /\ _canReach(e.to, to)
              /\ PassingPathsKept(e.to, to, After(view, e.check))

\* C16: pruning has no false negatives: on every path from the start to the
\* target on which all predicates pass, canReach(edge.to, target) is true for
\* every edge, and a check that returns while such a path exists does not
\* return null.
C16_PruningKeepsPassingPaths ==
    /\ \A to \in Permissions : PassingPathsKept(defaultRole, to, params0)
    /\ (Checking /\ Returned /\ PassingPath(defaultRole, call.to, params0)) => Granted

C16_Witness ==
    /\ Checking
    /\ Granted
    /\ Cardinality(SuccessfulPaths) = 1
    /\ \E q \in SuccessfulPaths : Len(q) = 3
    /\ \E ev \in evals : ~ev.passed

\* C17: canReach(from, to) is the reflexive-transitive closure of the edge
\* relation: true iff from = to or a chain of edges leads from `from` to
\* `to`; it depends on the edges alone, so that neither a predicate, nor a
\* context, nor an earlier call changes its value.
C17_CanReachIsClosure ==
    \A to \in Nodes \cup Permissions :
        LET closure == ReachesTo(to)
        IN  \A from \in DOMAIN edges :
                _canReach(from, to) <=> from \in closure

C17_Witness ==
    /\ Completed
    /\ evals # {}
    /\ \E e \in Range(EdgesFrom(defaultRole)) :
          /\ _canReach(e.to, call.to)
          /\ ~DirectEdge(e.to, call.to)
    /\ \E e \in AllEdges : \E n \in Nodes : ~_canReach(e.from, n)

\* ------------------------------------------------------------ cyclic graphs
\* C18: on a graph that contains a cycle canReach(from, to) returns a
\* boolean: none of the calls that check and explain make for the edges of
\* the starting node recurses without end.
C18_OracleTerminates ==
    (call.op = "explain" \/ (call.op = "check" /\ call.to # defaultRole)) =>
        \A e \in Range(EdgesFrom(defaultRole)) : ~Overflows(e.to, call.to)

\* The recursion from the destination of the edge of call p has been
\* entered: the predicate passed and the destination is not the target.
Entered(p) ==
    /\ NodeOf(p) # call.to
    /\ \E ev \in evals : ev.path = p /\ ev.passed /\ ~ev.threw

\* C19: the traversal of check and explain is guarded against cycles: no
\* call is entered for a node, with the context visible there, from within
\* the same call for the same node and the same context (a nesting that
\* repeats itself without bound, the predicates being functions of the
\* context).
C19_TraversalGuarded ==
    \A p \in DOMAIN heap \ {<<>>} :
        Entered(p) =>
            \A q \in Prefixes(p) \ {p} :
                ~(NodeOf(q) = NodeOf(p) /\ PathView(q) = PathView(p))

\* ------------------------------------------------------------------ explain
\* q is p or a call made, directly or not, by p
Under(p, q) == Len(p) <= Len(q) /\ SubSeq(q, 1, Len(p)) = p

\* C20: explain makes one record {to, explain, checkPassed, params} per
\* attempted edge, in pre-order: the records of the edges leaving one node
\* are in declaration order, and the records of the subtree explored through
\* an edge follow the record of the edge without a gap, before the record of
\* the next sibling edge.
C20_RecordsPreOrder ==
    call.op = "explain" =>
        /\ \A i \in 1..Len(records) :
              LET p == RecordPath(i)
                  e == EdgeById(Last(p))
              IN  /\ records[i].to = e.to
                  /\ records[i].explain = e.explain
                  /\ \E ev \in evals : ev.path = p /\ ev.passed = records[i].checkPassed
                  /\ Len(p) > 1 =>
                        \E j \in 1..(i - 1) :
                            /\ RecordPath(j) = Front(p)
                            /\ records[j].checkPassed
                            /\ \A m \in (j + 1)..i : Under(Front(p), RecordPath(m))
        /\ \A i, j \in 1..Len(records) :
              i < j =>
                  /\ RecordPath(i) # RecordPath(j)
                  /\ Front(RecordPath(i)) = Front(RecordPath(j)) =>
                        Last(RecordPath(i)) < Last(RecordPath(j))
        /\ {RecordPath(i) : i \in 1..Len(records)} = {ev.path : ev \in {x \in evals : ~x.threw}}

C20_Witness ==
    /\ call.op = "explain"
    /\ Returned
    /\ \E i, j, m \in 1..Len(records) :
          /\ i < j /\ j < m
          /\ Len(RecordPath(i)) = 1
          /\ Len(RecordPath(j)) = 2
          /\ Len(RecordPath(m)) = 1
          /\ ~records[m].checkPassed

\* The call paths of the edges explain has to attempt from node `from`,
\* entered by the call with path p that sees `view`: every edge whose
\* destination can reach the target, and, through each edge whose predicate
\* passes short of the target, the edges to attempt from its destination.
RECURSIVE Attempts(_, _, _, _)
Attempts(p, from, to, view) ==
    UNION { IF e.to \in ReachesTo(to)
            THEN {Append(p, e.id)} \cup
                 (IF Passes(e.check, view) /\ e.to # to
                  THEN Attempts(Append(p, e.id), e.to, to, After(view, e.check))
                  ELSE {})
            ELSE {} :
            e \in Range(EdgesFrom(from)) }

RecordPaths == {RecordPath(i) : i \in 1..Len(records)}

\* C21: explain is exhaustive: the records it returns cover every edge that
\* leaves a node reached through passed predicates and whose destination can
\* reach the target, whatever an earlier sibling achieved and whatever fails
\* deeper, each with the outcome of its predicate; and when no path passes,
\* every record that ends a listed path has checkPassed false.
C21_ExplainExhaustive ==
    (call.op = "explain" /\ Returned) =>
        /\ \A q \in Attempts(<<>>, defaultRole, call.to, params0) :
              \E i \in 1..Len(records) :
                  /\ RecordPath(i) = q
                  /\ records[i].checkPassed =
                        Passes(EdgeById(Last(q)).check, PathView(Front(q)))
        /\ ~PassingPath(defaultRole, call.to, params0) =>
              \A i \in 1..Len(records) :
                  (\A q \in RecordPaths : Front(q) # RecordPath(i)) =>
                      ~records[i].checkPassed

C21_Witness ==
    /\ call.op = "explain"
    /\ Returned
    /\ \E i, j, m \in 1..Len(records) :
          /\ i < j /\ j < m
          /\ records[i].to = call.to
          /\ records[i].checkPassed
          /\ Len(RecordPath(j)) = 1
          /\ records[j].checkPassed
          /\ Front(RecordPath(m)) = RecordPath(j)
          /\ ~records[m].checkPassed

\* an edge from the start node to the target declared without check function
\* (the constructor gives it the predicate that resolves to true)
DirectOpenEdge ==
    \E e \in Range(EdgesFrom(defaultRole)) :
        e.to = call.to /\ e.check = AlwaysTrue

\* C22: an edge declared without predicate is always passable: a check of its
\* destination from its origin succeeds for every context.
C22_OpenEdgePasses ==
    (Checking /\ Completed /\ DirectOpenEdge) => Granted

\* What holds of the code: the check succeeds whenever it returns.
C22_OpenEdgePassesWhenNoFault ==
    (Checking /\ Returned /\ DirectOpenEdge) => Granted

\* C29: along one path, Object.assign({}, scopedParams, childrenParams) takes
\* the edge's own scoped fields first and applies the fields returned by the
\* recursion after them: a key bound by the edge and by a deeper edge carries
\* the deeper value (of the last declared successful branch that carries it),
\* and a key no successful branch carries keeps the edge's own value.
C29_ChildrenAppliedAfterOwn ==
    \A p \in Paths : \A k \in Keys :
        (tasks[p].pc = "done" /\ tasks[p].result.kind = "obj") =>
            tasks[p].result.own[k] =
                IF Succeeded(p, k) # {}
                THEN ResultOf(p, Max(Succeeded(p, k)))[k]
                ELSE heap[ScopedParams(p)][k]

\* C29 as the algorithm step words it: the child fields are taken first and
\* the edge's own scoped fields are applied after them, so a key bound by the
\* edge and by a deeper edge carries the edge's own value.
C29_OwnAppliedAfterChildren ==
    \A p \in Paths : \A k \in Keys :
        (/\ tasks[p].pc = "done"
         /\ tasks[p].result.kind = "obj"
         /\ heap[ScopedParams(p)][k] # Absent
         /\ Succeeded(p, k) # {}) =>
            tasks[p].result.own[k] = heap[ScopedParams(p)][k]

C29_Witness ==
    /\ Checking
    /\ Granted
    /\ \E p \in Paths : \E k \in Keys :
          /\ Len(p) = 1
          /\ tasks[p].pc = "done"
          /\ tasks[p].result.kind = "obj"
          /\ Succeeded(p, k) # {}
          /\ heap[ScopedParams(p)][k] # Absent
          /\ tasks[p].result.own[k] = ResultOf(p, Max(Succeeded(p, k)))[k]
          /\ tasks[p].result.own[k] # heap[ScopedParams(p)][k]
          /\ Result.own[k] = tasks[p].result.own[k]

\* C30: fan-out and fan-in of check: a node that was entered has started
\* one call per surviving edge, all of them at once, each of which resolves
\* whatever its siblings did; the node has a result only when every one of
\* these calls has returned, and a check that returns leaves no call
\* unresolved: it never returns early on a first success.
C30_FanOutFanIn ==
    Checking =>
        /\ \A p \in DOMAIN tasks :
              (/\ tasks[p].pc \in {"children", "done"}
               /\ NodeOf(p) # call.to
               /\ p = <<>> \/ Entered(p)) =>
                  /\ tasks[p].checks = ChildPaths(p, call.to)
                  /\ Range(tasks[p].checks) \subseteq DOMAIN tasks
                  /\ tasks[p].pc = "done" =>
                        \A c \in Range(tasks[p].checks) : tasks[c].pc = "done"
        /\ Returned => \A q \in DOMAIN tasks : tasks[q].pc = "done"

\* a later declared branch has succeeded while an earlier sibling is still
\* unresolved, and the node is still waiting
C30_Witness ==
    /\ Checking
    /\ \E p \in DOMAIN tasks : \E i, j \in 1..Len(tasks[p].checks) :
          /\ tasks[p].pc = "children"
          /\ j < i
          /\ tasks[tasks[p].checks[i]].pc = "done"
          /\ tasks[tasks[p].checks[i]].result.kind # "null"
          /\ tasks[tasks[p].checks[j]].pc = "check"

\* the instance holds an edge built from a declaration without `from` or `to`
Malformed == \E e \in AllEdges : e.from = Absent \/ e.to = Absent

\* C24: a malformed edge declaration is rejected at construction time: no
\* instance is built from it, so no check or explain ever runs on an instance
\* that holds an edge without origin or without destination.
C24_MalformedRejected == Malformed => call.op = "none"

\* ------------------------------------------------- accumulator properties
\* The two objects after a sequence of calls made on new ones.
Fresh == [byId |-> <<>>, others |-> {}, fields |-> {}]
Current == [byId |-> _byId, others |-> _others, fields |-> _fields]

ApplyCall(s, c) ==
    IF c.op = "allowSome" THEN [s EXCEPT !.byId = AllowSomeLoop(@, c.ids, c.fields)]
    ELSE IF c.op = "allowAll" THEN [s EXCEPT !.others = AddEach(@, c.fields)]
    ELSE [s EXCEPT !.fields = AddEach(@, c.fields)]

RECURSIVE Replay(_, _)
Replay(s, calls) ==
    IF calls = <<>> THEN s ELSE Replay(ApplyCall(s, Head(calls)), Tail(calls))

\* What the queries answer: the (id, field) pairs and the fields allowed
AllowedPairs(s) == {x \in Ids \X Fields : AllowedById(s.byId, s.others, x[1], x[2])}
AllowedFields(s) == s.fields \cap Fields
Orders(n) == {f \in [1..n -> 1..n] : \A i, j \in 1..n : f[i] = f[j] => i = j}

\* C25: accumulation is commutative and monotonic: the calls made so far,
\* replayed on new objects in any order, give the same fieldIsAllowed answer
\* for every id and field and the same hasIdRestriction as the objects have
\* now, and whatever was allowed after some first calls is allowed now.
C25_CommutativeMonotonic ==
    /\ \A f \in Orders(Len(log)) :
          LET s == Replay(Fresh, [i \in 1..Len(log) |-> log[f[i]]])
          IN  /\ AllowedPairs(s) = AllowedPairs(Current)
              /\ AllowedFields(s) = AllowedFields(Current)
              /\ (s.others = {}) = hasIdRestriction
    /\ \A n \in 0..Len(log) :
          LET s == Replay(Fresh, SubSeq(log, 1, n))
          IN  /\ AllowedPairs(s) \subseteq AllowedPairs(Current)
              /\ AllowedFields(s) \subseteq AllowedFields(Current)

\* two allowSome calls name the same id with different fields, the one with
\* fewer fields last, and a field is granted to all ids in between
C25_Witness ==
    /\ Len(log) = 3
    /\ log[1].op = "allowSome" /\ log[3].op = "allowSome" /\ log[2].op = "allowAll"
    /\ Range(log[1].ids) \cap Range(log[3].ids) # {}
    /\ Range(log[3].fields) # Range(log[1].fields)
    /\ Range(log[3].fields) \subseteq Range(log[1].fields)
    /\ \E id \in Ids : fieldIsAllowed(id, "g")
    /\ ~hasIdRestriction

GrantedToAll(field) ==
    \E i \in 1..Len(log) : log[i].op = "allowAll" /\ field \in Range(log[i].fields)
GrantedTo(id, field) ==
    \E i \in 1..Len(log) :
        /\ log[i].op = "allowSome"
        /\ id \in Range(log[i].ids)
        /\ field \in Range(log[i].fields)

\* C26: a FieldsByIdRestriction starts with nothing allowed, and
\* fieldIsAllowed(id, field) is true exactly when the field was passed to
\* some allowAll call or some allowSome call held both the id and the field:
\* a field granted to one id is not allowed on another.
C26_AllowedIffGranted ==
    \A id \in Ids : \A field \in Fields :
        fieldIsAllowed(id, field) <=> (GrantedToAll(field) \/ GrantedTo(id, field))

C26_Witness ==
    /\ fieldIsAllowed(1, "g")
    /\ ~fieldIsAllowed(2, "g")
    /\ fieldIsAllowed(2, "f")
    /\ GrantedTo(2, "f")
    /\ ~GrantedToAll("f")

\* the ids of the allowSome calls, in the order they were passed
RECURSIVE PassedIds(_)
PassedIds(calls) ==
    IF calls = <<>> THEN <<>>
    ELSE (IF Head(calls).op = "allowSome" THEN Head(calls).ids ELSE <<>>)
         \o PassedIds(Tail(calls))

\* a sequence without the repetitions of its elements
RECURSIVE FirstOccurrences(_)
FirstOccurrences(s) ==
    IF s = <<>> THEN <<>>
    ELSE LET r == FirstOccurrences(Front(s))
         IN  IF Last(s) \in Range(r) THEN r ELSE Append(r, Last(s))

\* C27: hasIdRestriction is true exactly when no field was granted through
\* allowAll; getAllowedIds throws whenever it is false, also after allowSome
\* calls, and otherwise returns each id passed to allowSome once, in the
\* order of first insertion.
C27_IdRestriction ==
    /\ hasIdRestriction <=> ~\E field \in Fields : GrantedToAll(field)
    /\ getAllowedIds.threw <=> ~hasIdRestriction
    /\ ~getAllowedIds.threw => getAllowedIds.ids = FirstOccurrences(PassedIds(log))

\* ids are returned in the order of first insertion, an id passed again later
\* and an allowAll call without fields notwithstanding
C27_Witness ==
    /\ Len(log) = 3
    /\ log[1].op = "allowSome" /\ log[1].ids = <<2>>
    /\ log[2].op = "allowAll" /\ log[2].fields = <<>>
    /\ log[3].op = "allowSome" /\ log[3].ids = <<2, 1>>
    /\ ~getAllowedIds.threw
    /\ getAllowedIds.ids = <<2, 1>>

\* C28: a FieldsRestriction starts with nothing allowed, and
\* fieldIsAllowed(field) is true exactly when the field was held by some
\* allow call.
C28_FieldAllowedIffGranted ==
    \A field \in Fields :
        fieldAllowed(field) <=>
            \E i \in 1..Len(log) : log[i].op = "allow" /\ field \in Range(log[i].fields)

C28_Witness ==
    /\ fieldAllowed("f")
    /\ fieldAllowed("g")
    /\ \E i, j \in 1..Len(log) :
          /\ i < j
          /\ log[i].op = "allow" /\ log[i].fields = <<"f">>
          /\ log[j].op = "allow" /\ log[j].fields = <<"f", "g">>

\* ------------------------------------------------------ results as functions
\* What a check returns, computed from the graph, the target and the context
\* alone: "throw", "null", or the own properties of the object returned.
\* `own` holds the own properties of the params the call received.
Outcome(kind, own) == [kind |-> kind, own |-> own]

RECURSIVE CheckOutcome(_, _, _, _)
RECURSIVE BranchOutcome(_, _, _)
RECURSIVE MergeOutcomes(_, _)

MergeOutcomes(rs, m) ==
    IF rs = <<>> THEN m
    ELSE MergeOutcomes(Tail(rs),
            IF Head(rs).kind = "obj" THEN ObjectAssign(m, Head(rs).own) ELSE m)

CheckOutcome(from, to, view, own) ==
    IF from = to THEN Outcome("obj", own)
    ELSE LET s == SelectSeq(EdgesFrom(from), LAMBDA e : e.to \in ReachesTo(to))
             rs == [i \in 1..Len(s) |-> BranchOutcome(s[i], to, view)]
         IN  IF \E i \in 1..Len(rs) : rs[i].kind = "throw" THEN Outcome("throw", EmptyObj)
             ELSE IF \A i \in 1..Len(rs) : rs[i].kind = "null" THEN Outcome("null", EmptyObj)
             ELSE Outcome("obj", MergeOutcomes(rs, EmptyObj))

BranchOutcome(e, to, view) ==
    LET out == RunCheck(e.check, view)
        scoped == IF out.wkey # NoKey THEN [EmptyObj EXCEPT ![out.wkey] = out.wval]
                  ELSE EmptyObj
    IN  IF out.threw THEN Outcome("throw", EmptyObj)
        ELSE IF ~out.passed THEN Outcome("null", EmptyObj)
        ELSE LET r == CheckOutcome(e.to, to, After(view, e.check), scoped)
             IN  IF r.kind = "obj" THEN Outcome("obj", ObjectAssign(scoped, r.own)) ELSE r

\* What explain returns, computed the same way: whether it throws, and the
\* call path and outcome of each record, in order.
RECURSIVE Trail(_, _, _, _, _)
Trail(p, from, to, view, i) ==
    IF i > Len(EdgesFrom(from)) THEN [threw |-> FALSE, recs |-> <<>>]
    ELSE LET e == EdgesFrom(from)[i]
             q == Append(p, e.id)
             out == RunCheck(e.check, view)
         IN  IF e.to \notin ReachesTo(to) THEN Trail(p, from, to, view, i + 1)
             ELSE IF out.threw THEN [threw |-> TRUE, recs |-> <<>>]
             ELSE LET sub == IF out.passed /\ e.to # to
                             THEN Trail(q, e.to, to, After(view, e.check), 1)
                             ELSE [threw |-> FALSE, recs |-> <<>>]
                      rest == Trail(p, from, to, view, i + 1)
                  IN  IF sub.threw \/ rest.threw THEN [threw |-> TRUE, recs |-> <<>>]
                      ELSE [threw |-> FALSE,
                            recs |-> <<[path |-> q, passed |-> out.passed]>>
                                     \o sub.recs \o rest.recs]

\* the call with root path r, made for target `to`, ended as the function says
EndedAs(r, to, expected) ==
    /\ tasks[r].pc = "rejected" => expected.kind = "throw"
    /\ tasks[r].pc = "done" =>
          /\ expected.kind = (IF tasks[r].result.kind = "null" THEN "null" ELSE "obj")
          /\ OwnProps(heap, tasks[r].result) = expected.own

\* C23: check and explain keep no hidden state: what a call returns is a
\* function of the graph, the target and the context alone, whether the call
\* runs alone, before or after another call on the same instance, or
\* interleaved with it in any way.
C23_NoHiddenState ==
    /\ Checking => EndedAs(<<>>, call.to, CheckOutcome(defaultRole, call.to, params0, params0))
    /\ (call2.op = "check" /\ Second \in DOMAIN tasks) =>
          EndedAs(Second, call2.to, CheckOutcome(defaultRole, call2.to, params0, params0))
    /\ call.op = "explain" =>
          LET expected == Trail(<<>>, defaultRole, call.to, params0, 1)
          IN  /\ Threw => expected.threw
              /\ Returned =>
                    /\ ~expected.threw
                    /\ [i \in 1..Len(records) |->
                          [path |-> RecordPath(i), passed |-> records[i].checkPassed]]
                       = expected.recs

\* the calls run interleaved: the second check has returned a result that
\* carries a bound key while, of the first check, one branch has returned a
\* result and another is still unresolved
C23_Witness ==
    /\ Checking
    /\ call2.op = "check"
    /\ tasks[Second].pc = "done"
    /\ tasks[Second].result.kind # "null"
    /\ OwnProps(heap, tasks[Second].result)["user"] # Absent
    /\ tasks[<<>>].pc = "children"
    /\ \E p, q \in Paths :
          /\ p[1] # 0 /\ tasks[p].pc = "check"
          /\ q[1] # 0 /\ tasks[q].pc = "done" /\ tasks[q].result.kind # "null"

\* the predicate evaluations the second check has made, as (call path, outcome)
CheckEvaluations ==
    {<<Tail(ev.path), ev.passed>> : ev \in {x \in evals : x.path[1] = 0}}

\* the records of explain, as (call path, outcome)
ExplainRecords ==
    {<<RecordPath(i), records[i].checkPassed>> : i \in 1..Len(records)}

\* explain and a check of the same target with the same context have ended
BothEnded ==
    /\ call.op = "explain"
    /\ Completed
    /\ call2.op = "check"
    /\ Second \in DOMAIN tasks
    /\ tasks[Second].pc \in {"done", "rejected"}
    /\ call2.to = call.to
    /\ call.to # defaultRole

\* C31: explain and check agree: for a target other than the start node,
\* check returns a result exactly when explain returns a record whose `to` is
\* the target and whose checkPassed is true, and the records of explain match
\* one to one the predicate evaluations of check: same call paths, same
\* outcomes.
C31_ExplainAgreesWithCheck ==
    BothEnded =>
        /\ (tasks[Second].pc = "done" /\ tasks[Second].result.kind # "null") <=>
              (Returned /\ \E i \in 1..Len(records) :
                              records[i].to = call.to /\ records[i].checkPassed)
        /\ Returned =>
              /\ ExplainRecords = CheckEvaluations
              /\ Cardinality(ExplainRecords) = Len(records)

\* both ended on a target reached by one branch and missed by another
C31_Witness ==
    /\ BothEnded
    /\ Returned
    /\ tasks[Second].result.kind # "null"
    /\ \E i, j \in 1..Len(records) :
          /\ records[i].to = call.to /\ records[i].checkPassed
          /\ ~records[j].checkPassed
    /\ Len(records) >= 3

\* the records made through the edge of record i: those of its subtree
Descendants(i) ==
    {j \in 1..Len(records) :
        /\ Len(RecordPath(j)) > Len(RecordPath(i))
        /\ SubSeq(RecordPath(j), 1, Len(RecordPath(i))) = RecordPath(i)}

\* C32: explain recurses through an edge exactly when its predicate passed
\* and its destination is not the target: a record with checkPassed false
\* and a record whose `to` is the target have no record of their subtree
\* after them, and once explain has returned every other record has the
\* records of the edges that leave its destination towards the target.
C32_RecursesIffPassedShortOfTarget ==
    call.op = "explain" =>
        \A i \in 1..Len(records) :
            /\ (~records[i].checkPassed \/ records[i].to = call.to) =>
                  Descendants(i) = {}
            /\ (Returned /\ records[i].checkPassed /\ records[i].to # call.to) =>
                  {RecordPath(j) : j \in {d \in Descendants(i) :
                                            Len(RecordPath(d)) = Len(RecordPath(i)) + 1}}
                  = {Append(RecordPath(i), e.id) :
                        e \in {x \in Range(EdgesFrom(records[i].to)) :
                                 x.to \in ReachesTo(call.to)}}

\* a failed record, a record that reached the target, and a record explain
\* recursed through, in one returned list
C32_Witness ==
    /\ call.op = "explain"
    /\ Returned
    /\ \E i, j, m \in 1..Len(records) :
          /\ ~records[i].checkPassed /\ records[i].to # call.to
          /\ records[j].checkPassed /\ records[j].to = call.to
          /\ records[m].checkPassed /\ Descendants(m) # {}

\* position of an element in a sequence without repetitions
IndexOf(s, x) == CHOOSE i \in 1..Len(s) : s[i] = x

\* the (declaration, from, to) triples the declarations of a list stand for
Pairs(decls) ==
    {<<i, f, t>> : i \in 1..Len(decls), f \in Nodes, t \in Nodes} \cap
    UNION {{i} \X Range(decls[i].from.v) \X Range(decls[i].to.v) : i \in 1..Len(decls)}

\* C36: construction expands each declaration into one edge per (from, to)
\* pair of its from and to entries, a single node counting as one entry, and
\* the edge list of each node keeps declaration order: the edges of an
\* earlier declaration come before those of a later one, and the edges of
\* one declaration are in the order of its `to` entries.
C36_ExpansionKeepsOrder ==
    \E s \in 1..Len(Topologies) :
        LET decls == Topologies[s]
        IN  /\ {<<e.explain, e.from, e.to>> : e \in AllEdges} = Pairs(decls)
            /\ Cardinality(AllEdges) = Cardinality(Pairs(decls))
            /\ \A n \in DOMAIN edges :
                  /\ \A a \in 1..Len(edges[n]) : edges[n][a].from = n
                  /\ \A a, b \in 1..Len(edges[n]) :
                        a < b =>
                            \/ edges[n][a].explain < edges[n][b].explain
                            \/ /\ edges[n][a].explain = edges[n][b].explain
                               /\ IndexOf(decls[edges[n][a].explain].to.v, edges[n][a].to)
                                  < IndexOf(decls[edges[n][b].explain].to.v, edges[n][b].to)

\* a check has run from a node that holds an edge of an earlier declaration
\* followed by the two edges of a declaration with two `to` entries
C36_Witness ==
    /\ Checking
    /\ Returned
    /\ \E a, b, c \in 1..Len(edges[defaultRole]) :
          /\ a < b /\ b < c
          /\ edges[defaultRole][a].explain < edges[defaultRole][b].explain
          /\ edges[defaultRole][b].explain = edges[defaultRole][c].explain
          /\ edges[defaultRole][b].to # edges[defaultRole][c].to

\* C37: for a target other than the start node, every key of the result of
\* check carries a value that a predicate wrote on an edge of a successful
\* path: a key that only the caller's context holds is not in the result,
\* nor is a key bound on failed branches only.
C37_ResultKeysFromSuccessfulPaths ==
    (Checking /\ Granted /\ call.to # defaultRole) =>
        \A k \in Keys :
            OwnProps(heap, Result)[k] # Absent =>
                \E q \in SuccessfulPaths : OwnProps(heap, Result)[k] \in BoundOn(q, k)

\* the result holds a key bound on a successful path, not the caller's key,
\* and not the key that a predicate bound before it returned false
C37_Witness ==
    /\ Checking
    /\ Granted
    /\ call.to # defaultRole
    /\ params0["key"] # Absent
    /\ Result.own["key"] = Absent
    /\ Result.own["token"] # Absent
    /\ Result.own["user"] = Absent
    /\ \E ev \in evals :
          /\ ~ev.passed
          /\ EdgeById(Last(ev.path)).check.wkey = "user"

\* the grants of the fills invoked for key k, and of those that have settled
GrantsInvoked(k) == {EdgeById(Last(p)).restrictFns[k].grant : p \in Invoked(k)}
GrantsSettled(k) ==
    {EdgeById(Last(p)).restrictFns[k].grant :
        p \in {q \in Invoked(k) :
                 fills[q].i = 0 \/ KeysOf(restrictions)[fills[q].i] # k}}

\* C35: no update of a shared accumulator is lost: whatever the order in
\* which the fills of the successful branches of a check settle, every
\* accumulator holds the grants of the fills settled so far, and once all
\* have settled it holds the union of the grants of all the fills invoked.
C35_NoLostUpdate ==
    \A k \in DOMAIN restrictions :
        /\ restrictions[k] = GrantsSettled(k)
        /\ FillsSettled => restrictions[k] = GrantsInvoked(k)

\* fills have settled in both accumulators, those of a later declared edge
\* while a fill of an earlier declared edge is still pending
C35_Witness ==
    /\ DOMAIN restrictions = RKeySet
    /\ Cardinality(DOMAIN fills) >= 3
    /\ Cardinality(restrictions["fields"]) >= 2
    /\ Cardinality(restrictions["ids"]) >= 2
    /\ \E p, q \in DOMAIN fills :
          /\ EdgeById(Last(p)).explain < EdgeById(Last(q)).explain
          /\ fills[q].i = 0 /\ fills[q].invoked = RKeySet
          /\ fills[p].i # 0

\* The restrict entries of the edge of call p whose key is in the map the
\* caller passed to check.
Selected(p) ==
    {k \in DOMAIN restrictions : EdgeById(Last(p)).restrictFns[k].t # "undef"}

\* The keys whose fill, invoked by the fillRestrictions call of p, has added
\* to its accumulator.
Filled_(p) ==
    {k \in fills[p].invoked :
        /\ ~FillRejects(EdgeById(Last(p)).restrictFns[k])
        /\ \/ fills[p].i = 0
           \/ \E a, b \in 1..Len(KeysOf(restrictions)) :
                 a < b /\ KeysOf(restrictions)[a] = k /\ b = fills[p].i}

SucceededEdge(p) == ~IsRoot(p) /\ tasks[p].pc = "done" /\ tasks[p].result.kind # "null"

\* the fills of the edge of call p are invoked only for selected entries, each
\* adding to the accumulator stored under its own key
SelectedOnly(p) ==
    /\ SucceededEdge(p)
    /\ fills[p].invoked \subseteq Selected(p)
    /\ \A k \in Filled_(p) :
          GrantOf(heap, ScopedParams(p), EdgeById(Last(p)).restrictFns[k]) \in restrictions[k]

\* C33: fills are selected by the caller's restriction map: for a successful
\* edge, once its fillRestrictions call is over, exactly the restrict entries
\* whose key is in the map passed to check have been invoked, each with the
\* accumulator stored under that key; with no restrictions no fill function
\* is invoked at all.
C33_FillsSelectedByMap ==
    Checking =>
        /\ \A p \in DOMAIN tasks : SucceededEdge(p) => p \in DOMAIN fills
        /\ \A p \in DOMAIN fills :
              /\ SelectedOnly(p)
              /\ fills[p].i = 0 => fills[p].invoked = Selected(p)
        /\ DOMAIN restrictions = {} => ~AnyInvoked

\* What holds of the code: every selected entry has been invoked when the
\* call is over and no fill rejected.
C33_FillsSelectedUnlessRejected ==
    Checking =>
        /\ \A p \in DOMAIN tasks : SucceededEdge(p) => p \in DOMAIN fills
        /\ \A p \in DOMAIN fills :
              /\ SelectedOnly(p)
              /\ (/\ fills[p].i = 0
                  /\ \A k \in fills[p].invoked : ~FillRejects(EdgeById(Last(p)).restrictFns[k]))
                 => fills[p].invoked = Selected(p)
        /\ DOMAIN restrictions = {} => ~AnyInvoked

\* The own properties the predicate of the edge of call p has given to the
\* scope of the edge.
OwnBindings(p) ==
    LET out == RunCheck(EdgeById(Last(p)).check, PathView(Front(p)))
    IN  IF (\E ev \in evals : ev.path = p) /\ ~out.threw /\ out.wkey # NoKey
        THEN [EmptyObj EXCEPT ![out.wkey] = out.wval]
        ELSE EmptyObj

\* a fill function of kind t, invoked by the fillRestrictions call of p
\* under key k, is over
FillOver(p, k, t) ==
    /\ p \in DOMAIN fills
    /\ k \in fills[p].invoked
    /\ EdgeById(Last(p)).restrictFns[k].t \in t
    /\ fills[p].i = 0 \/ KeysOf(restrictions)[fills[p].i] # k

\* C34: the context handed to a fill function is read-only: whatever the
\* fill functions assign to it, the scope of every edge holds what the
\* edge's predicate bound and nothing else, the caller's object is as it was
\* given, and every branch returns the merge of its own bindings with those
\* of the successful branches below it; and a fill function reads through
\* the frozen object every binding visible from the scope of its edge.
C34_FillContextReadOnly ==
    Checking =>
        /\ heap[<<>>] = params0
        /\ \A p \in Paths :
              /\ heap[ScopedParams(p)] = OwnBindings(p)
              /\ SucceededEdge(p) =>
                    OwnProps(heap, tasks[p].result) =
                        BranchOutcome(EdgeById(Last(p)), call.to, PathView(Front(p))).own
        /\ \A p \in DOMAIN fills : \A k \in Filled_(p) :
              LET fn == EdgeById(Last(p)).restrictFns[k]
              IN  fn.t = "read" => PathView(p)[fn.grant] \in restrictions[k]

\* check has returned a result; a fill function that reads a key bound by an
\* ancestor of its edge's scope has granted it, and fill functions that
\* assign to the params, one that ignores the failure and one that throws on
\* it, are over
C34_Witness ==
    /\ Checking /\ Granted
    /\ \E p \in DOMAIN fills :
          /\ Len(p) = 2
          /\ FillOver(p, "fields", {"read"})
          /\ heap[ScopedParams(p)]["user"] = Absent
          /\ PathView(p)["user"] = Val(1)
          /\ Val(1) \in restrictions["fields"]
    /\ \E q \in DOMAIN fills : FillOver(q, "fields", {"write", "writeStrict"})

\* C38: the outcome of check does not depend on the fills: whether the fill
\* functions have completed, are still pending or have rejected, check
\* returns the decision and the merged context that the predicates alone
\* determine, and it throws only when a predicate threw, never on the fault
\* of a fill function.
C38_OutcomeIndependentOfFills ==
    (Checking /\ Completed) =>
        /\ EndedAs(<<>>, call.to, CheckOutcome(defaultRole, call.to, params0, params0))
        /\ Threw => \E ev \in evals : ev.threw
        /\ Returned => \A p \in Paths : tasks[p].pc # "rejected"

\* check has returned a result while one fill function has rejected, another
\* one is still pending and a third one has completed
C38_Witness ==
    /\ Checking /\ Granted
    /\ \E p \in DOMAIN fills : FillOver(p, "fields", {"throw"})
    /\ \E q \in DOMAIN fills : fills[q].i # 0
    /\ \E r \in DOMAIN fills : Filled_(r) # {}

\* the call paths of the predicate evaluations made so far
EvaluatedPaths == {ev.path : ev \in evals}

\* C39: on an acyclic graph, if every predicate invoked eventually resolves,
\* check and explain eventually complete; the predicate evaluations they make
\* are at most one per path prefix whose earlier predicates all passed and
\* whose last edge survives pruning, and exactly these when the call returns;
\* explain has one record per evaluation that did not throw.
C39_Terminates ==
    /\ [](/\ EvaluatedPaths \subseteq Attempts(<<>>, defaultRole, call.to, params0)
          /\ \A a, b \in evals : a.path = b.path => a = b
          /\ call.op = "explain" =>
                /\ Len(records) = Cardinality(RecordPaths)
                /\ RecordPaths = {ev.path : ev \in {x \in evals : ~x.threw}}
          /\ Returned =>
                EvaluatedPaths = Attempts(<<>>, defaultRole, call.to, params0))
    /\ (call.op # "none") ~> Completed

\* a call has completed after evaluations on paths of two edges, one edge
\* having been pruned
C39_Witness ==
    /\ Completed
    /\ \E p \in EvaluatedPaths : Len(p) = 2
    /\ \E e \in Range(EdgesFrom(defaultRole)) : e.to \notin ReachesTo(call.to)

====
